---- MODULE Spec2Model ----
(***************************************************************************)
(* Access gate (whitelist middleware), admin whitelist commands and the    *)
(* per-user job deduplication of the el_estate Telegram bot.               *)
(*                                                                         *)
(* Every coroutine is cut at its await points: one action is the           *)
(* synchronous block that runs between two awaits, together with the       *)
(* store command the block ends in.                                        *)
(***************************************************************************)
EXTENDS Integers, FiniteSets, Sequences, TLC

(***************************************************************************)
(* Principals, tokens and the str()/int() conversions                      *)
(***************************************************************************)

\* Telegram user ids that occur; 0 stands for "no from_user" (None).
Principals == {1, 2, 3}
NoUser == 0

\* ADMIN_IDS as parsed at construction.
admin_ids == {1}

\* Decimal text of the ids (str(i)); "x" is a member that is not a number.
Decimal == <<"1", "2", "3", "4", "5", "6", "7", "8", "9">>
StrOf(i) == Decimal[i]
IsIntStr(s) == \E i \in DOMAIN Decimal : Decimal[i] = s
IntOf(s) == CHOOSE i \in DOMAIN Decimal : Decimal[i] = s

\* Members the Redis set / the JSON array can hold in this model.
Tokens == {"2", "3", "x"}

\* int(v) over a collection, skipping what does not parse.
Ints(S) == {IntOf(s) : s \in {t \in S : IsIntStr(t)}}
StrSet(I) == {StrOf(i) : i \in I}

Max(a, b) == IF a >= b THEN a ELSE b

(***************************************************************************)
(* Bounds and program constants                                            *)
(***************************************************************************)

\* WHITELIST_CACHE_REFRESH_S default and the floor applied to it.
cache_refresh_interval_s == 30
RefreshFloorS == 5

\* time.time() when the process starts.
StartTime == 1000

VARIABLES
    store,                 \* Redis SET whitelist:users (set of strings)
    backup,                \* data/whitelist.json: [readable, entries]
    redis_up,              \* whether Redis commands succeed
    now,                   \* time.time()
    cached_allowed_ids,    \* WhitelistMiddleware._cached_allowed_ids
    last_cache_refresh,    \* WhitelistMiddleware._last_cache_refresh
    restore_attempted,     \* WhitelistMiddleware._restore_attempted
    refresher_task,        \* WhitelistMiddleware._refresher_task is not None
    pass,                  \* the _refresh_cache calls in flight: "bg" and "call"
    cpc,                   \* position of the middleware __call__ in flight
    last_call,             \* what that __call__ did
    adm,                   \* the admin command handler in flight
    user_tasks,            \* _user_tasks: user id -> the task registered for it (0: no entry)
    task,                  \* the _do_scrape_and_send tasks created so far
    hnd,                   \* the update handlers running handle_url / cmd_retry
    last_url,              \* whether the user's saved data holds last_url
    writers,               \* allow / deny handlers running at the same time
    sem,                   \* _scrape_semaphore._value
    waiters,               \* _scrape_semaphore._waiters, first in first out
    sjob,                  \* the scrape_images calls up to the end of the extraction
    fetch,                 \* the _fetch_image calls of one job
    norm,                  \* a URL with _normalize_image_url applied once and twice
    wm,                    \* one _remove_watermark call: the image and the crop box
    run,                   \* one _do_scrape_and_send run with its scrape_images call
    bot_timeout,           \* message.bot.session: timeout.total, and whether the
                           \* session object lets its timeout attribute be assigned
    rk,                    \* one stats_service.rank call: items, usernames and result
    ucrop,                 \* the crop percentage a user has stored, with one job and
                           \* one set_crop_cb callback of that user
    fwd                    \* admin:await_forward flags and the handle_forward_allow
                           \* handlers in flight

gate_vars == <<store, backup, redis_up, now, cached_allowed_ids, last_cache_refresh,
               restore_attempted, refresher_task, pass, cpc, last_call, adm>>

job_vars == <<user_tasks, task, hnd, last_url>>

svc_vars == <<writers, sem, waiters, sjob, fetch, norm>>

aux_vars == <<rk, ucrop, fwd>>

dlv_vars == <<wm, run, bot_timeout, aux_vars>>

vars == <<gate_vars, job_vars, svc_vars, dlv_vars>>

Period == Max(RefreshFloorS, cache_refresh_interval_s)

(***************************************************************************)
(* The backup file                                                         *)
(***************************************************************************)

\* A file that is absent, is not JSON or is not a JSON array reads as nothing.
Unreadable == [readable |-> FALSE, entries |-> {}]
Backups == {Unreadable} \cup [readable : {TRUE}, entries : SUBSET Tokens]

\* JSON numbers with a fraction that the array can hold ("2.5" stands for the
\* number 2.5, not for a string), with what int(v) makes of them.
Truncated == [t \in {"2.5"} |-> 2]

\* int(v) over the entries of the JSON array: decimal text and whole numbers
\* parse, a number with a fraction is cut to its whole part, anything else is
\* skipped.
JsonInts(S) == Ints(S) \cup {Truncated[t] : t \in S \cap DOMAIN Truncated}

\* WhitelistMiddleware._load_backup_ids
load_backup_ids(b) == IF b.readable THEN JsonInts(b.entries) ELSE {}

\* json.dump(sorted(items_set)) followed by os.replace
dump_backup(items) == [readable |-> TRUE, entries |-> StrSet(items)]

(***************************************************************************)
(* Redis set commands                                                      *)
(***************************************************************************)

sadd(S, members) == S \cup members
srem(S, members) == S \ members
sismember(S, m) == m \in S

(***************************************************************************)
(* WhitelistMiddleware                                                     *)
(***************************************************************************)

PassIds == {"bg", "call"}
IdlePass == [pc |-> "idle", missing |-> {}, begin_missing |-> {}, kept |-> FALSE]

\* The ids _maybe_restore_from_backup sends to SADD, given the members it read.
missing_ids(backup_ids, ids) ==
    IF ids # {}
    THEN {StrOf(i) : i \in {j \in backup_ids : StrOf(j) \notin ids}}
    ELSE StrSet(backup_ids)

\* First synchronous block of _refresh_cache: the _restore_attempted test.
restore_entry(attempted) == IF attempted THEN "pull" ELSE "restore"

\* begin_missing remembers backup - store at the start of the pass, kept that
\* the pass last run in this slot kept a non-empty snapshot over an empty pull
\* (history only).
StartPass(p) ==
    /\ pass' = [pass EXCEPT ![p] =
                  [pc |-> restore_entry(restore_attempted),
                   missing |-> {},
                   begin_missing |-> StrSet(load_backup_ids(backup)) \ store,
                   kept |-> FALSE]]
    /\ restore_attempted' = TRUE

\* Variant that pulls without adding what is missing.
after_restore_read_skip(ok, ids, b) == "pull"

\* Where the pass goes after SMEMBERS inside _maybe_restore_from_backup.
after_restore_read(ok, ids, b) ==
    IF ok /\ missing_ids(load_backup_ids(b), ids) # {} THEN "sadd" ELSE "pull"

RestoreSmembers(p) ==
    /\ pass[p].pc = "restore"
    /\ pass' = [pass EXCEPT ![p].pc = after_restore_read(redis_up, store, backup),
                            ![p].missing =
                                IF redis_up THEN missing_ids(load_backup_ids(backup), store)
                                ELSE {}]
    /\ UNCHANGED <<store, backup, redis_up, now, cached_allowed_ids, last_cache_refresh,
                   restore_attempted, refresher_task, cpc, last_call, adm,
                   job_vars, svc_vars, dlv_vars>>

\* Variant of the restore that replaces the set by the backup's ids.
restore_sadd_replace(ok, S, missing) == IF ok THEN missing ELSE S

\* The store after the SADD of the restore (an error leaves it as it was).
restore_sadd(ok, S, missing) == IF ok THEN sadd(S, missing) ELSE S

RestoreSadd(p) ==
    /\ pass[p].pc = "sadd"
    /\ store' = restore_sadd(redis_up, store, pass[p].missing)
    /\ pass' = [pass EXCEPT ![p].pc = "pull", ![p].missing = {}]
    /\ adm' = [adm EXCEPT !.solo = adm.solo /\ store' = store]
    /\ UNCHANGED <<backup, redis_up, now, cached_allowed_ids, last_cache_refresh,
                   restore_attempted, refresher_task, cpc, last_call,
                   job_vars, svc_vars, dlv_vars>>

\* Variant of the refresh that installs whatever it pulled.
installs_always(ok, ids) == ok

\* Whether the pulled membership replaces the snapshot.
installs(ok, ids) == ok /\ Ints(ids) # {}

\* Variant of the refresh that adds the pulled ids to the snapshot it has.
refreshed_in_place(ok, ids, cache) ==
    IF installs(ok, ids) THEN cache \cup Ints(ids) ELSE cache

\* _cached_allowed_ids after the pull: normalized is built apart and assigned
\* in one statement.
refreshed(ok, ids, cache) == IF installs(ok, ids) THEN Ints(ids) ELSE cache

Pull(p) ==
    /\ pass[p].pc = "pull"
    /\ cached_allowed_ids' = refreshed(redis_up, store, cached_allowed_ids)
    /\ last_cache_refresh' =
           IF installs(redis_up, store) THEN now ELSE last_cache_refresh
    /\ pass' = [pass EXCEPT ![p] =
                  [IdlePass EXCEPT !.kept = redis_up /\ ~installs(redis_up, store)
                                              /\ cached_allowed_ids # {}]]
    /\ UNCHANGED <<store, backup, redis_up, now, restore_attempted, refresher_task,
                   cpc, last_call, adm,
                   job_vars, svc_vars, dlv_vars>>

\* One iteration of the background loop started by _ensure_refresher_running.
BgRefresh ==
    /\ refresher_task
    /\ pass["bg"].pc = "idle"
    /\ StartPass("bg")
    /\ UNCHANGED <<store, backup, redis_up, now, cached_allowed_ids, last_cache_refresh,
                   refresher_task, cpc, last_call, adm,
                   job_vars, svc_vars, dlv_vars>>

\* Variants of _is_allowed with one branch wrong.
is_allowed_no_bypass(user_id, ok, S, cache) ==
    IF ok THEN sismember(S, StrOf(user_id)) ELSE user_id \in cache

is_allowed_cache_first(user_id, ok, S, cache) ==
    IF user_id \in admin_ids THEN TRUE
    ELSE IF user_id \in cache THEN TRUE
    ELSE ok /\ sismember(S, StrOf(user_id))

is_allowed_fail_closed(user_id, ok, S, cache) ==
    IF user_id \in admin_ids THEN TRUE
    ELSE ok /\ sismember(S, StrOf(user_id))

\* _is_allowed: ok says whether SISMEMBER answered.
is_allowed(user_id, ok, S, cache) ==
    IF user_id \in admin_ids THEN TRUE
    ELSE IF ok THEN sismember(S, StrOf(user_id))
    ELSE user_id \in cache

Kinds == {"Message", "CallbackQuery"}
Texts == {"/start ref1", "http://olx.pl/d/1", ""}
Events == [kind : {"Message"}, from_user : Principals \cup {NoUser}, text : Texts]
            \cup [kind : {"CallbackQuery"}, from_user : Principals \cup {NoUser}, text : {""}]

\* text.startswith("/start") on the texts above
startswith_start(text) == text \in {"/start", "/start ref1"}

\* Variant of the pass-through test that forgets callback queries.
passes_unchecked_callbacks(ev) ==
    \/ ev.from_user = NoUser
    \/ ev.kind = "CallbackQuery"
    \/ ev.kind = "Message" /\ startswith_start(ev.text)

\* Events __call__ hands to the handler without asking _is_allowed.
passes_unchecked(ev) ==
    \/ ev.from_user = NoUser
    \/ ev.kind = "Message" /\ startswith_start(ev.text)

\* Which branch of _is_allowed answers: the admin test, SISMEMBER, or the
\* except branch that logs whitelist.check_failed and reads the snapshot.
decided_by(user_id, ok) ==
    IF user_id \in admin_ids THEN "admin" ELSE IF ok THEN "store" ELSE "cache"

NoCall == [kind |-> "", from_user |-> NoUser, text |-> "", via |-> "",
           handler_called |-> FALSE, answered |-> FALSE]

\* The part of __call__ after the lazy refresh.
call_outcome(ev, ok, S, cache) ==
    IF passes_unchecked(ev)
    THEN [kind |-> ev.kind, from_user |-> ev.from_user, text |-> ev.text,
          via |-> "unchecked", handler_called |-> TRUE, answered |-> FALSE]
    ELSE [kind |-> ev.kind, from_user |-> ev.from_user, text |-> ev.text,
          via |-> decided_by(ev.from_user, ok),
          handler_called |-> is_allowed(ev.from_user, ok, S, cache),
          answered |-> ~is_allowed(ev.from_user, ok, S, cache) /\ ev.kind = "Message"]

Stale == now - last_cache_refresh > Period

\* __call__ up to its first await.
Call ==
    /\ cpc = "idle"
    /\ refresher_task' = TRUE
    /\ IF Stale
       THEN /\ StartPass("call")
            /\ cpc' = "refresh"
       ELSE /\ cpc' = "dispatch"
            /\ UNCHANGED <<pass, restore_attempted>>
    /\ UNCHANGED <<store, backup, redis_up, now, cached_allowed_ids, last_cache_refresh,
                   last_call, adm,
                   job_vars, svc_vars, dlv_vars>>

\* The rest of __call__; the event is read here for the first time.
Dispatch(ev) ==
    /\ \/ cpc = "dispatch"
       \/ cpc = "refresh" /\ pass["call"].pc = "idle"
    /\ last_call' = call_outcome(ev, redis_up, store, cached_allowed_ids)
    /\ cpc' = "done"
    /\ UNCHANGED <<store, backup, redis_up, now, cached_allowed_ids, last_cache_refresh,
                   restore_attempted, refresher_task, pass, adm,
                   job_vars, svc_vars, dlv_vars>>

CallReturn ==
    /\ cpc = "done"
    /\ cpc' = "idle"
    /\ last_call' = NoCall
    /\ UNCHANGED <<store, backup, redis_up, now, cached_allowed_ids, last_cache_refresh,
                   restore_attempted, refresher_task, pass, adm,
                   job_vars, svc_vars, dlv_vars>>

(***************************************************************************)
(* Admin router: /allow and /deny with _write_backup                       *)
(***************************************************************************)

\* Variant that takes every sender for an admin.
is_admin_anyone(uid) == uid \in Principals

\* _is_admin
is_admin(uid) == uid \in admin_ids

AtNames == {"@bob"}
ArgLists == {<<>>, <<"2">>, <<"3">>, <<"x">>, <<"@bob">>, <<"2", "3">>}
\* What GET username_to_id:<name> can hold.
Mappings == {"", "3"}

IdleAdm == [pc |-> "idle", op |-> "", uid |-> NoUser, ids_redis |-> {},
            solo |-> FALSE, result |-> "", sender |-> NoUser]

AdmDone(op, uid, result) ==
    [pc |-> "done", op |-> op, uid |-> uid, ids_redis |-> {}, solo |-> FALSE,
     result |-> result, sender |-> NoUser]

\* allow / deny from the sender test to the first store write: the handler's
\* next position and the id it works on.
parse_command(sender, op, parts, ok, val) ==
    IF ~is_admin(sender) THEN [result |-> "ignored", uid |-> NoUser]
    ELSE IF Len(parts) # 2 THEN [result |-> "usage", uid |-> NoUser]
    ELSE IF op = "allow" /\ parts[2] \in AtNames
    THEN IF ~ok THEN [result |-> "aborted", uid |-> NoUser]
         ELSE IF val # "" /\ IsIntStr(val) THEN [result |-> "go", uid |-> IntOf(val)]
         ELSE [result |-> "no_mapping", uid |-> NoUser]
    ELSE IF ~IsIntStr(parts[2]) THEN [result |-> "bad_id", uid |-> NoUser]
    ELSE [result |-> "go", uid |-> IntOf(parts[2])]

AdminCommand(sender, op, args, val) ==
    /\ adm.pc = "idle"
    /\ LET r == parse_command(sender, op, <<op>> \o args, redis_up, val) IN
       adm' = IF r.result = "go"
              THEN [IdleAdm EXCEPT !.pc = "mutate", !.op = op, !.uid = r.uid,
                                   !.sender = sender]
              ELSE AdmDone(op, r.uid, r.result)
    /\ UNCHANGED <<store, backup, redis_up, now, cached_allowed_ids, last_cache_refresh,
                   restore_attempted, refresher_task, pass, cpc, last_call,
                   job_vars, svc_vars, dlv_vars>>

\* redis.sadd / redis.srem of the handler
mutate(op, S, uid) ==
    IF op = "allow" THEN sadd(S, {StrOf(uid)}) ELSE srem(S, {StrOf(uid)})

\* solo: no other writer has changed the store since this write (history only).
AdminMutate ==
    /\ adm.pc = "mutate"
    /\ IF redis_up
       THEN /\ store' = mutate(adm.op, store, adm.uid)
            /\ adm' = [adm EXCEPT !.pc = "reply", !.solo = TRUE]
       ELSE /\ adm' = AdmDone(adm.op, adm.uid, "aborted")
            /\ UNCHANGED store
    /\ UNCHANGED <<backup, redis_up, now, cached_allowed_ids, last_cache_refresh,
                   restore_attempted, refresher_task, pass, cpc, last_call,
                   job_vars, svc_vars, dlv_vars>>

\* _labels_for_user (allow only) and message.answer; then _write_backup starts.
AdminReply(tg_ok) ==
    /\ adm.pc = "reply"
    /\ adm' = IF (adm.op = "allow" /\ ~redis_up) \/ ~tg_ok
              THEN AdmDone(adm.op, adm.uid, "aborted")
              ELSE [adm EXCEPT !.pc = "wb_smembers"]
    /\ UNCHANGED <<store, backup, redis_up, now, cached_allowed_ids, last_cache_refresh,
                   restore_attempted, refresher_task, pass, cpc, last_call,
                   job_vars, svc_vars, dlv_vars>>

\* _write_backup: SMEMBERS
AdminWbSmembers ==
    /\ adm.pc = "wb_smembers"
    /\ adm' = IF redis_up
              THEN [adm EXCEPT !.pc = "wb_write", !.ids_redis = Ints(store)]
              ELSE AdmDone(adm.op, adm.uid, "write_failed")
    /\ UNCHANGED <<store, backup, redis_up, now, cached_allowed_ids, last_cache_refresh,
                   restore_attempted, refresher_task, pass, cpc, last_call,
                   job_vars, svc_vars, dlv_vars>>

\* Variant of the merge that starts from the store alone.
backup_items_store_only(ids_file, ids_redis, add_id, remove_id) ==
    (ids_redis \cup (IF add_id = NoUser THEN {} ELSE {add_id}))
        \ (IF remove_id = NoUser THEN {} ELSE {remove_id})

\* items_set of _write_backup; NoUser stands for a hint that is None.
backup_items(ids_file, ids_redis, add_id, remove_id) ==
    ((ids_file \cup ids_redis) \cup (IF add_id = NoUser THEN {} ELSE {add_id}))
        \ (IF remove_id = NoUser THEN {} ELSE {remove_id})

add_hint(op, uid) == IF op = "allow" THEN uid ELSE NoUser
remove_hint(op, uid) == IF op = "deny" THEN uid ELSE NoUser

\* _write_backup after SMEMBERS: read the file, merge, write, replace.
AdminWbWrite(file_ok) ==
    /\ adm.pc = "wb_write"
    /\ IF file_ok
       THEN /\ backup' = dump_backup(backup_items(load_backup_ids(backup), adm.ids_redis,
                                                  add_hint(adm.op, adm.uid),
                                                  remove_hint(adm.op, adm.uid)))
            /\ adm' = [adm EXCEPT !.pc = "done", !.result = "ok"]
       ELSE /\ adm' = AdmDone(adm.op, adm.uid, "write_failed")
            /\ UNCHANGED backup
    /\ UNCHANGED <<store, redis_up, now, cached_allowed_ids, last_cache_refresh,
                   restore_attempted, refresher_task, pass, cpc, last_call,
                   job_vars, svc_vars, dlv_vars>>

AdminReturn ==
    /\ adm.pc = "done"
    /\ adm' = IdleAdm
    /\ UNCHANGED <<store, backup, redis_up, now, cached_allowed_ids, last_cache_refresh,
                   restore_attempted, refresher_task, pass, cpc, last_call,
                   job_vars, svc_vars, dlv_vars>>

(***************************************************************************)
(* Environment                                                             *)
(***************************************************************************)

RedisDown ==
    /\ redis_up
    /\ redis_up' = FALSE
    /\ UNCHANGED <<store, backup, now, cached_allowed_ids, last_cache_refresh,
                   restore_attempted, refresher_task, pass, cpc, last_call, adm,
                   job_vars, svc_vars, dlv_vars>>

RedisUp ==
    /\ ~redis_up
    /\ redis_up' = TRUE
    /\ UNCHANGED <<store, backup, now, cached_allowed_ids, last_cache_refresh,
                   restore_attempted, refresher_task, pass, cpc, last_call, adm,
                   job_vars, svc_vars, dlv_vars>>

(***************************************************************************)
(* Specification of the access gate                                        *)
(***************************************************************************)

GateInit(stores, backups) ==
    /\ store \in stores
    /\ backup \in backups
    /\ redis_up = TRUE
    /\ now = StartTime
    /\ cached_allowed_ids = {}
    /\ last_cache_refresh = 0
    /\ restore_attempted = FALSE
    /\ refresher_task = FALSE
    /\ pass = [p \in PassIds |-> IdlePass]
    /\ cpc = "idle"
    /\ last_call = NoCall
    /\ adm = IdleAdm

(***************************************************************************)
(* User router: _process_url and the per-user task map                     *)
(***************************************************************************)

\* Tasks that can be created in one run.
MaxTasks == 2
TaskIds == 1 .. MaxTasks
\* Updates handled at the same time (the dispatcher runs each update as a task).
Handlers == {1, 2}
JobUsers == {2, 3}
NoTask == 0

IdleHnd == [pc |-> "idle", user |-> NoUser, kind |-> "", result |-> ""]
NoJob == [state |-> "none", user |-> NoUser, exit |-> ""]

JobsInit ==
    /\ user_tasks = [u \in JobUsers |-> NoTask]
    /\ task = [t \in TaskIds |-> NoJob]
    /\ hnd = [h \in Handlers |-> IdleHnd]
    /\ last_url = [u \in JobUsers |-> FALSE]

\* Variant of the test that only looks for an entry of a finished task.
busy_never(tasks, jobs, u) == tasks[u] # NoTask /\ jobs[tasks[u]].state = "done"

\* existing and not existing.done()
busy(tasks, jobs, u) == tasks[u] # NoTask /\ jobs[tasks[u]].state # "done"

\* What the handler does with a trigger: cmd_retry without a saved link answers
\* and returns; _process_url answers "already processing" or goes on.
trigger_result(kind, has_url, is_busy) ==
    IF kind = "retry" /\ ~has_url THEN "no_last_url"
    ELSE IF is_busy THEN "rejected"
    ELSE "go"

Trigger(h, u, kind) ==
    /\ hnd[h].pc = "idle"
    /\ LET r == trigger_result(kind, last_url[u], busy(user_tasks, task, u)) IN
       hnd' = [hnd EXCEPT ![h] =
                 IF r = "go"
                 THEN [pc |-> "awaiting", user |-> u, kind |-> kind, result |-> ""]
                 ELSE [pc |-> "done", user |-> u, kind |-> kind, result |-> r]]
    /\ UNCHANGED <<dlv_vars, svc_vars, gate_vars, user_tasks, task, last_url>>

FreeTasks == {t \in TaskIds : task[t].state = "none"}
NewTask == CHOOSE t \in FreeTasks : \A o \in FreeTasks : t <= o

\* _user_tasks[user_id] = asyncio.create_task(_do_scrape_and_send())
register(tasks, u, t) == [tasks EXCEPT ![u] = t]

\* The awaits of _process_url (name mapping, FSM state, user data, status
\* message) and then create_task; ok is false when one of them raises.
Resume(h, ok) ==
    /\ hnd[h].pc = "awaiting"
    /\ IF ok
       THEN /\ FreeTasks # {}
            /\ task' = [task EXCEPT ![NewTask] =
                          [state |-> "scrape", user |-> hnd[h].user, exit |-> ""]]
            /\ user_tasks' = register(user_tasks, hnd[h].user, NewTask)
            /\ hnd' = [hnd EXCEPT ![h].pc = "done", ![h].result = "started"]
       ELSE /\ hnd' = [hnd EXCEPT ![h].pc = "done", ![h].result = "aborted"]
            /\ UNCHANGED <<user_tasks, task>>
    /\ UNCHANGED <<dlv_vars, svc_vars, gate_vars, last_url>>

HandlerReturn(h) ==
    /\ hnd[h].pc = "done"
    /\ hnd' = [hnd EXCEPT ![h] = IdleHnd]
    /\ UNCHANGED <<dlv_vars, svc_vars, gate_vars, user_tasks, task, last_url>>

\* await scrape_images(...)
TaskScrape(t, outcome) ==
    /\ task[t].state = "scrape"
    /\ task' = [task EXCEPT ![t].state =
                  CASE outcome = "images" -> "send"
                    [] outcome = "empty" -> "no_images"
                    [] OTHER -> "except"]
    /\ UNCHANGED <<dlv_vars, svc_vars, gate_vars, user_tasks, hnd, last_url>>

\* _user_tasks.pop(user_id, None)
pop(tasks, u, t) == [tasks EXCEPT ![u] = NoTask]

\* The finally block: the task ends and the user's entry is popped.
Finally(t, exit) ==
    /\ task' = [task EXCEPT ![t].state = "done", ![t].exit = exit]
    /\ user_tasks' = pop(user_tasks, task[t].user, t)

\* stats, the sends, the status edit and _save_user_data; ok is false when one
\* of them raises into the except block.
TaskSend(t, ok) ==
    /\ task[t].state = "send"
    /\ IF ok
       THEN /\ Finally(t, "delivered")
            /\ last_url' = [last_url EXCEPT ![task[t].user] = TRUE]
       ELSE /\ task' = [task EXCEPT ![t].state = "except"]
            /\ UNCHANGED <<user_tasks, last_url>>
    /\ UNCHANGED <<dlv_vars, svc_vars, gate_vars, hnd>>

\* The else branch: status edit and FSM state.
TaskNoImages(t, ok) ==
    /\ task[t].state = "no_images"
    /\ IF ok
       THEN Finally(t, "no_images")
       ELSE /\ task' = [task EXCEPT ![t].state = "except"]
            /\ UNCHANGED user_tasks
    /\ UNCHANGED <<dlv_vars, svc_vars, gate_vars, hnd, last_url>>

\* The except block; whether or not its own awaits raise, finally runs.
TaskExcept(t) ==
    /\ task[t].state = "except"
    /\ Finally(t, "failed")
    /\ UNCHANGED <<dlv_vars, svc_vars, gate_vars, hnd, last_url>>

JobsNext ==
    \/ \E h \in Handlers, u \in JobUsers, kind \in {"url", "retry"} : Trigger(h, u, kind)
    \/ \E h \in Handlers, ok \in BOOLEAN : Resume(h, ok)
    \/ \E h \in Handlers : HandlerReturn(h)
    \/ \E t \in TaskIds, outcome \in {"images", "empty", "raise"} : TaskScrape(t, outcome)
    \/ \E t \in TaskIds, ok \in BOOLEAN : TaskSend(t, ok)
    \/ \E t \in TaskIds, ok \in BOOLEAN : TaskNoImages(t, ok)
    \/ \E t \in TaskIds : TaskExcept(t)

(***************************************************************************)
(* Specifications                                                          *)
(***************************************************************************)

(***************************************************************************)
(* Initial state of the concurrent writers and of the scraping service     *)
(***************************************************************************)

\* Admin updates handled at the same time.
Writers == {1, 2}
IdleWriter == [pc |-> "idle", op |-> "", uid |-> NoUser, ids_redis |-> {}]

\* SCRAPE_CONCURRENCY, SCRAPE_RETRIES and SCRAPE_RETRY_BACKOFF_S (2.0) defaults.
SCRAPE_CONCURRENCY == 2
SCRAPE_RETRIES == 2
SCRAPE_RETRY_BACKOFF_S == 2

\* IMAGE_FETCH_RETRIES and IMAGE_FETCH_RETRY_BACKOFF_S (1.0) defaults.
IMAGE_FETCH_RETRIES == 2
IMAGE_FETCH_RETRY_BACKOFF_S == 1

\* scrape_images calls that can run at the same time.
MaxScrapeJobs == 3
ScrapeJobs == 1 .. MaxScrapeJobs

\* What one selector strategy finds: the src attributes read before it ended,
\* and whether it ended by raising.
NoFind == [srcs |-> <<>>, raised |-> FALSE]
NoPage == [site |-> "", sel |-> <<>>, fallback |-> NoFind, slides |-> <<>>]

IdleScrape == [pc |-> "idle", attempt |-> 0, driver |-> "none", opened |-> 0,
               quits |-> 0, page |-> NoPage, outcomes |-> <<>>, found |-> 0,
               sleeps |-> <<>>, log |-> {}, result |-> <<>>]

\* Image references of one job, fetched at the same time by asyncio.gather.
MaxImages == 2
Images == 1 .. MaxImages

IdleFetch == [pc |-> "idle", attempt |-> 0, requests |-> 0, failed |-> 0, last |-> "",
              sleeps |-> <<>>, result |-> "none"]

NoNorm == [pc |-> "idle", url |-> <<>>, once |-> <<>>, twice |-> <<>>]

\* urls: the URLs _normalize_image_url is applied to.
SvcInitUrls(urls) ==
    /\ writers = [w \in Writers |-> IdleWriter]
    /\ sem = SCRAPE_CONCURRENCY
    /\ waiters = <<>>
    /\ sjob = [j \in ScrapeJobs |-> IdleScrape]
    /\ fetch = [i \in Images |-> IdleFetch]
    /\ norm \in [pc : {"idle"}, url : urls, once : {<<>>}, twice : {<<>>}]

SvcInit == SvcInitUrls({NoNorm.url})

\* DEFAULT_CROP_PERCENTAGE.
DEFAULT_CROP_PERCENTAGE == 15

\* Image heights tried besides the 1000-pixel example; widths tried.
MaxHeight == 12
Heights == (0 .. MaxHeight) \cup {1000}
Widths == {1, 2}
Percents == 0 .. 100

IdleWm == [pc |-> "idle", width |-> 0, height |-> 0, crop_percent |-> 0,
           crop_area |-> <<0, 0, 0, 0>>]

\* TG_TIMEOUT_BASE_S, TG_TIMEOUT_STEP_S and TG_TIMEOUT_MAX_S defaults, and the
\* total timeout app.start gives the bot session (TG_TOTAL_TIMEOUT_S default).
TG_TIMEOUT_BASE_S == 60
TG_TIMEOUT_STEP_S == 30
TG_TIMEOUT_MAX_S == 240
tg_total_timeout == 120

\* MEDIA_GROUP_SIZE is read from the environment (default 10); the model sends
\* groups of two.
MEDIA_GROUP_SIZE == 2
\* retries and retries_single of the two send loops.
retries == 5
retries_single == 5

\* Image references one extraction can return.
MaxRefs == 3
\* retry_after values of a TelegramRetryAfter.
Delays == {1, 3}

NoSend == [kind |-> "", assets |-> <<>>, k |-> 0, desired |-> 0, timeout |-> 0,
           outcome |-> "", delay |-> 0]

\* The locals of scrape_images and _do_scrape_and_send, the directory on disk,
\* and a record of what was submitted to the chat:
\*   finished   the _process_image tasks in the order they ended
\*   groups     the batches in the order of their first submission
\*   exhausted  the offsets of the batches whose loop ended without a send
\*   fallback   the offsets of the batches sent asset by asset
\*   tried      the assets submitted one by one
\*   sent       the assets of the sends that succeeded
\*   quiet      the assets of the sends that ended unsent with no exception kept
\*   logged     the assets logged as send.photo.failed
\*   last       the latest send_media_group / send_photo call
IdleRun == [pc |-> "idle", dir |-> "none", user_dir |-> "", extracted |-> FALSE,
            image_urls |-> 0, processed |-> <<>>, finished |-> <<>>, images |-> <<>>,
            i |-> 0, attempt |-> 0, last_exc |-> FALSE,
            p |-> 0, attempt_single |-> 0, last_exc_single |-> FALSE,
            sleep |-> 0, groups |-> <<>>, exhausted |-> {}, fallback |-> {},
            tried |-> {}, sent |-> {},
            quiet |-> {}, logged |-> {}, last |-> NoSend, reported |-> -1,
            outcome |-> ""]

\* Entries of one usage table.
MaxEntries == 3

NoRank == [pc |-> "idle", items |-> <<>>, usernames |-> {}, out |-> <<>>]

\* No crop percentage stored, selected or read yet.
NoCrop == -1
\* The values the set_crop buttons offer and set_crop_cb accepts.
CropValues == {0, 5, 10, 15}

IdleCrop == [stored |-> NoCrop, chosen |-> NoCrop,
             job |-> [pc |-> "idle", data |-> NoCrop, crop |-> NoCrop],
             cb |-> [pc |-> "idle", value |-> NoCrop, data |-> NoCrop]]

IdleFwdHandler == [pc |-> "idle", sender |-> NoUser, uid |-> NoUser, ids_redis |-> {},
                   result |-> ""]

\* flags: the admins whose admin:await_forward key is set; issued: how many
\* times the key was set; added: the ids the forward handlers sent to SADD
\* (both history only).
FwdHandlers == {1, 2}

IdleFwd == [flags |-> {}, issued |-> 0, added |-> {},
            h |-> [k \in FwdHandlers |-> IdleFwdHandler]]

\* ranks: the rank calls to start from.
AuxInit(ranks) ==
    /\ rk \in ranks
    /\ ucrop = IdleCrop
    /\ fwd = IdleFwd

\* imgs: the _remove_watermark calls to start from; sessions: the kinds of bot
\* session.
DlvInitWith(imgs, sessions) ==
    /\ wm \in imgs
    /\ run = IdleRun
    /\ bot_timeout \in [total : {tg_total_timeout}, assignable : sessions]
    /\ AuxInit({NoRank})

DlvInit == DlvInitWith({IdleWm}, {TRUE})

Init == GateInit(SUBSET Tokens, Backups) /\ JobsInit /\ SvcInit /\ DlvInit

\* The access gate: every event reaches the middleware, both refresh passes
\* run, and an admin denies user 2.
Next ==
    \/ Call
    \/ \E ev \in Events : Dispatch(ev)
    \/ CallReturn
    \/ BgRefresh
    \/ \E p \in PassIds : RestoreSmembers(p)
    \/ \E p \in PassIds : RestoreSadd(p)
    \/ \E p \in PassIds : Pull(p)
    \/ AdminCommand(1, "deny", <<"2">>, "")
    \/ AdminMutate
    \/ \E tg_ok \in BOOLEAN : AdminReply(tg_ok)
    \/ AdminWbSmembers
    \/ \E file_ok \in BOOLEAN : AdminWbWrite(file_ok)
    \/ AdminReturn
    \/ RedisDown
    \/ RedisUp

Spec == Init /\ [][Next]_vars

\* The admin router: every command from every sender, next to the refresh
\* pass of a middleware call.
AdminEvents == {[kind |-> "Message", from_user |-> 2, text |-> ""]}

NextAdmin ==
    \/ Call
    \/ \E ev \in AdminEvents : Dispatch(ev)
    \/ CallReturn
    \/ RestoreSmembers("call")
    \/ RestoreSadd("call")
    \/ Pull("call")
    \/ \E sender \in Principals, op \in {"allow", "deny"}, args \in ArgLists,
          val \in Mappings : AdminCommand(sender, op, args, val)
    \/ AdminMutate
    \/ \E tg_ok \in BOOLEAN : AdminReply(tg_ok)
    \/ AdminWbSmembers
    \/ \E file_ok \in BOOLEAN : AdminWbWrite(file_ok)
    \/ AdminReturn
    \/ RedisDown
    \/ RedisUp

SpecAdmin == Init /\ [][NextAdmin]_vars

\* The user router alone.
InitJobs == GateInit({{}}, {Unreadable}) /\ JobsInit /\ SvcInit /\ DlvInit

SpecJobs == InitJobs /\ [][JobsNext]_vars

(***************************************************************************)
(* Properties                                                              *)
(***************************************************************************)

NonAdmins == Principals \ admin_ids

\* The step in which __call__ decides about its event.
DispatchStep == cpc # "done" /\ cpc' = "done"

\* C1: for every admin, _is_allowed is true in every reachable state, whether
\* SISMEMBER answers or raises and whatever the snapshot holds; a dispatched
\* event of an admin always reaches the handler.
C1_AdminAlwaysAllowed ==
    /\ \A a \in admin_ids, ok \in BOOLEAN : is_allowed(a, ok, store, cached_allowed_ids)
    /\ last_call.from_user \in admin_ids => last_call.handler_called

\* An admin was let through while Redis was down and not in the set.
C1_Witness ==
    /\ cpc = "done"
    /\ last_call.via = "admin"
    /\ last_call.handler_called
    /\ ~redis_up
    /\ StrOf(last_call.from_user) \notin store

\* C2: with SISMEMBER answering, a non-admin that is not a member of the set is
\* refused, also when the snapshot or the backup file still holds it.
C2_NonMemberRefused ==
    \A p \in NonAdmins :
        redis_up /\ StrOf(p) \notin store
            => ~is_allowed(p, redis_up, store, cached_allowed_ids)

\* A non-member that the snapshot and the backup file both hold was refused
\* by the store's answer.
C2_Witness ==
    /\ cpc = "done"
    /\ last_call.via = "store"
    /\ ~last_call.handler_called
    /\ StrOf(last_call.from_user) \notin store
    /\ last_call.from_user \in cached_allowed_ids
    /\ last_call.from_user \in load_backup_ids(backup)

\* C3 as claimed: with Redis up, no Message or CallbackQuery of a sender that
\* is neither admin nor member reaches the handler, whatever its content.
C3_BlockedWhateverContent ==
    [][DispatchStep /\ redis_up
         /\ last_call'.kind \in Kinds
         /\ last_call'.from_user \in NonAdmins
         /\ StrOf(last_call'.from_user) \notin store
            => ~last_call'.handler_called]_vars

\* C3: with Redis up, a Message or CallbackQuery of a sender that is neither
\* admin nor member does not reach the handler unless it is a Message whose
\* text starts with /start; such a Message always reaches it.
C3_BlockedExceptStart ==
    [][DispatchStep /\ redis_up
         /\ last_call'.kind \in Kinds
         /\ last_call'.from_user \in NonAdmins
         /\ StrOf(last_call'.from_user) \notin store
            => (last_call'.handler_called
                  <=> (last_call'.kind = "Message" /\ startswith_start(last_call'.text)))]_vars

\* A callback query of a non-member was stopped by the store's answer.
C3_Witness ==
    /\ cpc = "done"
    /\ last_call.kind = "CallbackQuery"
    /\ last_call.via = "store"
    /\ last_call.from_user \in NonAdmins
    /\ ~last_call.handler_called

\* C4: when SISMEMBER raises, _is_allowed of a non-admin is exactly membership
\* in the snapshot; the snapshot is empty until a refresh installs one, and
\* only a refresh that pulled a non-empty membership changes it.
C4_FallbackIsSnapshot ==
    /\ [](\A p \in NonAdmins :
            /\ ~redis_up => (is_allowed(p, redis_up, store, cached_allowed_ids)
                                <=> p \in cached_allowed_ids)
            /\ last_cache_refresh = 0 => ~is_allowed(p, FALSE, store, cached_allowed_ids))
    /\ [][cached_allowed_ids' # cached_allowed_ids
            => /\ redis_up
               /\ \E p \in PassIds : pass[p].pc = "pull" /\ pass'[p].pc = "idle"
               /\ cached_allowed_ids' = Ints(store)]_vars

\* A user the set no longer holds was let through by the snapshot.
C4_Witness ==
    /\ cpc = "done"
    /\ last_call.via = "cache"
    /\ last_call.handler_called
    /\ StrOf(last_call.from_user) \notin store

\* The step that starts a _refresh_cache call, and the step in which its
\* _maybe_restore_from_backup returns.
PassStarts(p) == pass[p].pc = "idle" /\ pass'[p].pc # "idle"
RestoreReturns(p) == pass[p].pc # "pull" /\ pass'[p].pc = "pull"

\* C5 as claimed: whenever _maybe_restore_from_backup returns with Redis up,
\* the set holds every id that was in the backup file and not in the set when
\* the call began.
C5_EveryCallUnions ==
    [][\A p \in PassIds :
          RestoreReturns(p) /\ redis_up => pass'[p].begin_missing \subseteq store']_vars

\* C5: the call of _maybe_restore_from_backup that finds _restore_attempted
\* unset adds, with Redis up, exactly the backup ids absent from the members it
\* read, so that afterwards the set holds the backup's ids and all it held; a
\* later call returns at once; no step of a refresh removes a member.
C5_FirstCallUnions ==
    [][\A p \in PassIds :
          /\ pass'[p] # pass[p] => store \subseteq store'
          /\ PassStarts(p) /\ restore_attempted => pass'[p].pc = "pull" /\ store' = store
          /\ pass[p].pc = "restore" /\ pass'[p].pc # "restore" /\ redis_up
                => /\ store' = store
                   /\ pass'[p].missing = StrSet(load_backup_ids(backup)) \ store
                   /\ pass'[p].pc = "pull" => StrSet(load_backup_ids(backup)) \subseteq store
          /\ pass[p].pc = "sadd" /\ pass'[p].pc = "pull" /\ redis_up
                => store' = store \cup pass[p].missing]_vars

\* The restore has added the ids that were missing when its pass began.
C5_Witness ==
    \E p \in PassIds :
        /\ pass[p].pc = "pull"
        /\ pass[p].begin_missing # {}
        /\ pass[p].begin_missing \subseteq store
        /\ adm.pc = "idle"

\* C6 as claimed: in every refresh pass, with Redis up, the ids that were in
\* the backup file and not in the set when the pass began are in the set when
\* the pass pulls the membership.
C6_EveryPassReconciles ==
    [][\A p \in PassIds :
          pass[p].pc = "pull" /\ pass'[p].pc = "idle" /\ redis_up
              => pass[p].begin_missing \subseteq store]_vars

\* C6: only the refresh pass that finds _restore_attempted unset reconciles:
\* it sets the flag, and with Redis up it goes on to pull only when no backup
\* id is missing from the members it read or after it has added the missing
\* ones; every other pass goes straight to the pull.
C6_FirstPassReconciles ==
    [][\A p \in PassIds :
          /\ PassStarts(p)
                => /\ restore_attempted'
                   /\ pass'[p].pc = (IF restore_attempted THEN "pull" ELSE "restore")
          /\ pass[p].pc = "restore" /\ pass'[p].pc # "restore" /\ redis_up
                => pass'[p].pc =
                      (IF StrSet(load_backup_ids(backup)) \subseteq store
                       THEN "pull" ELSE "sadd")
          /\ pass[p].pc = "sadd" /\ pass'[p].pc # "sadd" /\ redis_up
                => pass'[p].pc = "pull" /\ pass[p].missing \subseteq store']_vars

\* One pass has reconciled and is about to pull while the other pass, started
\* later, is about to pull without having reconciled.
C6_Witness ==
    \E p, q \in PassIds :
        /\ p # q
        /\ pass[p].pc = "pull" /\ pass[p].begin_missing # {}
        /\ pass[p].begin_missing \subseteq store
        /\ pass[q].pc = "pull"
        /\ adm.pc = "idle"

Running(u) == {t \in TaskIds : task[t].user = u /\ task[t].state \notin {"none", "done"}}

\* C7 as claimed: at most one _do_scrape_and_send task per user is running,
\* however the handlers of concurrent triggers of that user interleave.
C7_OneJobPerUser == \A u \in JobUsers : Cardinality(Running(u)) <= 1

\* The step in which handler h takes up a trigger, and the one in which it
\* comes back from the awaits of _process_url.
TriggerStep(h) == hnd[h].pc = "idle" /\ hnd'[h].pc # "idle"
ResumeStep(h) == hnd[h].pc = "awaiting" /\ hnd'[h].pc = "done"

\* The map holds a task for u that has not finished.
Registered(u) == user_tasks[u] # NoTask /\ task[user_tasks[u]].state # "done"

\* C8: a trigger (a URL, or /retry with a saved link) taken up while the
\* user's registered task is not done is answered "already processing" and
\* changes neither the tasks nor the map, and the handler then only returns;
\* a trigger taken up when no unfinished task is registered goes on and, once
\* its awaits have returned, starts the job and registers it.
C8_RejectedWhileRegistered ==
    [][\A h \in Handlers :
          /\ TriggerStep(h) /\ (hnd'[h].kind = "url" \/ last_url[hnd'[h].user])
                => /\ hnd'[h].result = "rejected" <=> Registered(hnd'[h].user)
                   /\ hnd'[h].pc = "awaiting" <=> ~Registered(hnd'[h].user)
                   /\ task' = task /\ user_tasks' = user_tasks
          /\ hnd[h].result = "rejected" /\ hnd'[h] # hnd[h]
                => hnd'[h].pc = "idle" /\ task' = task /\ user_tasks' = user_tasks
          /\ ResumeStep(h) /\ hnd'[h].result = "started"
                => \E t \in TaskIds :
                      /\ task[t].state = "none" /\ task'[t].state = "scrape"
                      /\ task'[t].user = hnd[h].user
                      /\ user_tasks'[hnd[h].user] = t
                      /\ \A o \in TaskIds \ {t} : task'[o] = task[o]]_vars

\* A first job of the user is done, a second one is running and registered,
\* and a trigger that came while it was registered was rejected.
C8_Witness ==
    \E u \in JobUsers, h \in Handlers :
        /\ task[1].user = u /\ task[1].state = "done"
        /\ task[2].user = u /\ task[2].state = "scrape"
        /\ user_tasks[u] = 2
        /\ hnd[h].user = u /\ hnd[h].result = "rejected"

\* C9 as claimed: the step that ends a job leaves the user without an entry,
\* and the entry it removes, if any, is the one of that job.
C9_ReleasesOwnEntry ==
    [][\A t \in TaskIds :
          task[t].state # "done" /\ task'[t].state = "done"
              => /\ user_tasks'[task[t].user] = NoTask
                 /\ user_tasks[task[t].user] \in {NoTask, t}]_vars

\* The step in which _write_backup replaces the file.
WritesBackup == adm.pc = "wb_write" /\ adm'.pc = "done" /\ adm'.result = "ok"

\* C10: the store write of allow(u) puts u into the set and that of deny(u)
\* takes it out; the backup file then written holds the ids of the previous
\* file and of the members _write_backup pulled, with u added by allow and
\* removed by deny, and loses no other id; when no other writer changed the
\* set meanwhile, the pulled members are the current set and u is in it after
\* allow and not in it after deny.
C10_WriteThroughAndMerge ==
    [][/\ adm.pc = "mutate" /\ adm'.pc = "reply"
            => (StrOf(adm.uid) \in store' <=> adm.op = "allow")
       /\ WritesBackup
            => /\ backup'.readable
               /\ load_backup_ids(backup') =
                     IF adm.op = "allow"
                     THEN (load_backup_ids(backup) \cup adm.ids_redis) \cup {adm.uid}
                     ELSE (load_backup_ids(backup) \cup adm.ids_redis) \ {adm.uid}
               /\ load_backup_ids(backup) \ load_backup_ids(backup')
                     \subseteq (IF adm.op = "deny" THEN {adm.uid} ELSE {})
               /\ adm.solo
                     => /\ adm.ids_redis = Ints(store)
                        /\ StrOf(adm.uid) \in store <=> adm.op = "allow"]_vars

\* A deny has completed: its user is out of the set and of the file, and the
\* file kept an id that only the previous file held.
C10_Witness ==
    /\ adm.pc = "done" /\ adm.result = "ok" /\ adm.op = "deny"
    /\ adm.solo
    /\ StrOf(adm.uid) \notin store
    /\ adm.uid \notin load_backup_ids(backup)
    /\ load_backup_ids(backup) \ Ints(store) # {}

(***************************************************************************)
(* allow / deny handlers running at the same time                          *)
(***************************************************************************)

\* What the writers leave alone.
gate_rest == <<redis_up, now, cached_allowed_ids, last_cache_refresh, restore_attempted,
               refresher_task, pass, cpc, last_call, adm>>
svc_rest == <<sem, waiters, sjob, fetch, norm, dlv_vars>>

\* The id the concurrent commands are about.
WriterTarget == 2

\* /allow <id> or /deny <id> sent by an admin: up to the store write.
WriterCommand(w, op, uid) ==
    /\ writers[w].pc = "idle"
    /\ parse_command(1, op, <<op, StrOf(uid)>>, redis_up, "").result = "go"
    /\ writers' = [writers EXCEPT ![w] = [IdleWriter EXCEPT !.pc = "mutate", !.op = op,
                                                             !.uid = uid]]
    /\ UNCHANGED <<store, backup, gate_rest, job_vars, svc_rest>>

\* redis.sadd / redis.srem
WriterMutate(w) ==
    /\ writers[w].pc = "mutate"
    /\ redis_up
    /\ store' = mutate(writers[w].op, store, writers[w].uid)
    /\ writers' = [writers EXCEPT ![w].pc = "reply"]
    /\ UNCHANGED <<backup, gate_rest, job_vars, svc_rest>>

\* _labels_for_user and message.answer, then _write_backup is entered.
WriterReply(w) ==
    /\ writers[w].pc = "reply"
    /\ writers' = [writers EXCEPT ![w].pc = "wb_smembers"]
    /\ UNCHANGED <<store, backup, gate_rest, job_vars, svc_rest>>

\* _write_backup: SMEMBERS
WriterWbSmembers(w) ==
    /\ writers[w].pc = "wb_smembers"
    /\ redis_up
    /\ writers' = [writers EXCEPT ![w].pc = "wb_write", ![w].ids_redis = Ints(store)]
    /\ UNCHANGED <<store, backup, gate_rest, job_vars, svc_rest>>

\* _write_backup: read the file, merge, write, replace.
WriterWbWrite(w) ==
    /\ writers[w].pc = "wb_write"
    /\ backup' = dump_backup(backup_items(load_backup_ids(backup), writers[w].ids_redis,
                                          add_hint(writers[w].op, writers[w].uid),
                                          remove_hint(writers[w].op, writers[w].uid)))
    /\ writers' = [writers EXCEPT ![w].pc = "done"]
    /\ UNCHANGED <<store, gate_rest, job_vars, svc_rest>>

\* _notify, then the handler returns.
WriterReturn(w) ==
    /\ writers[w].pc = "done"
    /\ writers' = [writers EXCEPT ![w] = IdleWriter]
    /\ UNCHANGED <<store, backup, gate_rest, job_vars, svc_rest>>

NextWriters ==
    \/ \E w \in Writers, op \in {"allow", "deny"} : WriterCommand(w, op, WriterTarget)
    \/ \E w \in Writers : WriterMutate(w)
    \/ \E w \in Writers : WriterReply(w)
    \/ \E w \in Writers : WriterWbSmembers(w)
    \/ \E w \in Writers : WriterWbWrite(w)
    \/ \E w \in Writers : WriterReturn(w)

\* Store and backup file start in agreement about the target.
InitWriters ==
    /\ GateInit(SUBSET Tokens, Backups)
    /\ (StrOf(WriterTarget) \in store) <=> (WriterTarget \in load_backup_ids(backup))
    /\ JobsInit
    /\ SvcInit
    /\ DlvInit

SpecWriters == InitWriters /\ [][NextWriters]_vars

\* C11 as claimed: whenever no allow / deny handler is in flight, the store
\* and the backup file agree on whether the target is a member.
C11_WritersConverge ==
    (\A w \in Writers : writers[w].pc \in {"idle", "done"})
        => ((StrOf(WriterTarget) \in store) <=> (WriterTarget \in load_backup_ids(backup)))

\* The step in which the refresh pass p gets the answer to its SMEMBERS.
PullStep(p) == pass[p].pc = "pull" /\ pass'[p].pc = "idle"

\* C12: a refresh whose pulled membership holds no id leaves the snapshot and
\* the refresh timestamp as they were; a refresh that replaces the snapshot
\* installs the non-empty membership it pulled and stamps the time.
C12_EmptyPullKeepsSnapshot ==
    [][\A p \in PassIds :
          PullStep(p)
            => /\ redis_up /\ Ints(store) = {}
                    => /\ cached_allowed_ids' = cached_allowed_ids
                       /\ last_cache_refresh' = last_cache_refresh
               /\ redis_up /\ Ints(store) # {}
                    => /\ cached_allowed_ids' = Ints(store)
                       /\ last_cache_refresh' = now
               /\ cached_allowed_ids' # {} \/ cached_allowed_ids = {}]_vars

\* A pass pulled an empty membership with Redis up and the snapshot still
\* holds the ids of an earlier pull.
C12_Witness ==
    \E p \in PassIds :
        /\ pass[p].pc = "idle" /\ pass[p].kept
        /\ cached_allowed_ids # {}
        /\ last_cache_refresh = now

(***************************************************************************)
(* _browser_scrape: what one attempt collects from the page                *)
(***************************************************************************)

\* src attributes that occur; "" is an img without src.
SrcCdn == "https://ireland.apollo.olxcdn.com/v1/files/a/image;s=1280x1024"
SrcOtodom == "https://img.otodom.pl/b.jpg"
SrcOther == "https://ads.example.com/c.png"
SrcData == "data:image/gif;base64,R0"
SrcPlaceholder == "https://img.otodom.pl/Placeholder.png"

\* src.split("/image;")[0] + "/image;" when "/image;" is in src
trim_image(src) ==
    IF src = SrcCdn THEN "https://ireland.apollo.olxcdn.com/v1/files/a/image;" ELSE src

\* not src, src.startswith("data:") or "placeholder" in src.lower()
skipped(src) == src \in {"", SrcData, SrcPlaceholder}

\* "otodom" in src or "apollo.olxcdn.com" in src
on_cdn(src) == src \in {SrcCdn, SrcOtodom, SrcPlaceholder}

RECURSIVE collect(_)
\* The references one selector strategy appends, in page order.
collect(srcs) ==
    IF srcs = <<>> THEN <<>>
    ELSE (IF skipped(Head(srcs)) THEN <<>> ELSE <<trim_image(Head(srcs))>>)
             \o collect(Tail(srcs))

RECURSIVE collect_cdn(_)
\* The references the scan of all img elements appends.
collect_cdn(srcs) ==
    IF srcs = <<>> THEN <<>>
    ELSE (IF skipped(Head(srcs)) \/ ~on_cdn(Head(srcs)) THEN <<>>
          ELSE <<trim_image(Head(srcs))>>)
             \o collect_cdn(Tail(srcs))

RECURSIVE otodom_selectors(_, _, _)
\* The loop over the selectors from strategy i on: image_urls so far is acc;
\* found is the strategy that set found_images (0: none).
otodom_selectors(sel, i, acc) ==
    IF i > Len(sel) THEN [images |-> acc, found |-> 0]
    ELSE LET got == acc \o collect(sel[i].srcs) IN
         IF ~sel[i].raised /\ got # <<>> THEN [images |-> got, found |-> i]
         ELSE otodom_selectors(sel, i + 1, got)

\* image_urls of _browser_scrape once the page is loaded, with its log lines.
browser_scrape(page) ==
    IF page.site = "otodom"
    THEN LET c == otodom_selectors(page.sel, 1, <<>>)
             images == IF c.found # 0 THEN c.images
                       ELSE c.images \o collect_cdn(page.fallback.srcs)
         IN  [images |-> images, found |-> c.found,
              log |-> (IF c.found # 0 THEN {"otodom.extract.success"}
                       ELSE {"otodom.extract.fallback"})
                      \cup (IF c.found = 0 /\ ~page.fallback.raised /\ images # <<>>
                            THEN {"otodom.extract.fallback.success"} ELSE {})
                      \cup (IF c.found = 0 /\ page.fallback.raised
                            THEN {"otodom.extract.fallback.error"} ELSE {})
                      \cup (IF images = <<>> THEN {"otodom.extract.no_images"} ELSE {})]
    ELSE IF page.site = "olx"
    THEN [images |-> SelectSeq(page.slides, LAMBDA src : src # ""), found |-> 0, log |-> {}]
    ELSE [images |-> <<>>, found |-> 0, log |-> {}]

(***************************************************************************)
(* _browser_scrape_with_retry inside the semaphore of scrape_images        *)
(***************************************************************************)

scrape_rest == <<writers, fetch, norm, dlv_vars>>

\* Variant of Semaphore.locked that never reports the pool as taken.
locked_never(value, queue, jobs) == FALSE

\* asyncio.Semaphore.locked: no permit left, or a waiter not yet served.
locked(value, queue, jobs) ==
    value = 0 \/ \E k \in DOMAIN queue : jobs[queue[k]].pc \in {"wait", "woken"}

\* Semaphore._wake_up_next: the first waiter whose future is not done (0: none).
wake_up_next(queue, jobs) ==
    IF \E k \in DOMAIN queue : jobs[queue[k]].pc = "wait"
    THEN queue[CHOOSE k \in DOMAIN queue :
                  /\ jobs[queue[k]].pc = "wait"
                  /\ \A m \in 1 .. (k - 1) : jobs[queue[m]].pc # "wait"]
    ELSE 0

\* Variant of the finally block that quits only when the body returned.
finally_quit_on_return(driver, body_raised) ==
    IF driver = "open" /\ ~body_raised THEN "quit" ELSE driver

\* The finally block of _browser_scrape: driver.quit() when a driver exists.
finally_quit(driver, body_raised) == IF driver = "open" THEN "quit" ELSE driver

\* Variant of the budget test with one attempt less.
retries_left_fewer(attempt) == attempt < SCRAPE_RETRIES

\* attempt <= SCRAPE_RETRIES: another attempt follows a failed one.
retries_left(attempt) == attempt <= SCRAPE_RETRIES

\* Variant of the backoff that does not grow.
retry_sleep_flat(attempt) == SCRAPE_RETRY_BACKOFF_S

\* time.sleep(SCRAPE_RETRY_BACKOFF_S * attempt)
retry_sleep(attempt) == SCRAPE_RETRY_BACKOFF_S * attempt

\* Variant that logs extract.recovered for every success.
recovered_always(attempt) == TRUE

\* attempt > 1: the success is logged as extract.recovered.
recovered(attempt) == attempt > 1

\* The loop body of _browser_scrape_with_retry after _browser_scrape ended
\* with outcome "images", "empty" or "raised".
after_attempt(r, outcome, got, page) ==
    LET outs == Append(r.outcomes, outcome)
        log1 == r.log \cup got.log
                  \cup (IF outcome = "raised" THEN {"extract.attempt.error"} ELSE {})
    IN  IF outcome = "images"
        THEN [r EXCEPT !.pc = "returned", !.result = got.images, !.outcomes = outs,
                       !.found = got.found, !.page = page,
                       !.log = log1 \cup (IF recovered(r.attempt)
                                          THEN {"extract.recovered"} ELSE {})]
        ELSE IF retries_left(r.attempt)
        THEN [r EXCEPT !.pc = "attempt", !.attempt = r.attempt + 1, !.outcomes = outs,
                       !.sleeps = Append(r.sleeps, retry_sleep(r.attempt)),
                       !.page = NoPage, !.log = log1]
        ELSE [r EXCEPT !.pc = "returned", !.result = <<>>, !.outcomes = outs,
                       !.page = page,
                       !.log = log1 \cup (IF "extract.attempt.error" \in log1
                                          THEN {"extract.failed"} ELSE {})]

NoGot == [images |-> <<>>, found |-> 0, log |-> {}]

\* scrape_images up to "async with _scrape_semaphore".
ScrapeEnter(j) ==
    /\ sjob[j].pc = "idle"
    /\ IF locked(sem, waiters, sjob)
       THEN /\ waiters' = Append(waiters, j)
            /\ sjob' = [sjob EXCEPT ![j] = [IdleScrape EXCEPT !.pc = "wait"]]
            /\ UNCHANGED sem
       ELSE /\ sem' = sem - 1
            /\ sjob' = [sjob EXCEPT ![j] = [IdleScrape EXCEPT !.pc = "attempt",
                                                                !.attempt = 1]]
            /\ UNCHANGED waiters
    /\ UNCHANGED <<gate_vars, job_vars, scrape_rest>>

\* A woken waiter resumes in Semaphore.acquire and the worker thread starts.
ScrapeWake(j) ==
    /\ sjob[j].pc = "woken"
    /\ waiters' = SelectSeq(waiters, LAMBDA k : k # j)
    /\ LET next == IF sem > 0 THEN wake_up_next(waiters', sjob) ELSE 0 IN
       /\ sem' = IF next # 0 THEN sem - 1 ELSE sem
       /\ sjob' = [k \in ScrapeJobs |->
                     IF k = j THEN [sjob[j] EXCEPT !.pc = "attempt", !.attempt = 1]
                     ELSE IF k = next THEN [sjob[k] EXCEPT !.pc = "woken"]
                     ELSE sjob[k]]
    /\ UNCHANGED <<gate_vars, job_vars, scrape_rest>>

\* webdriver.Remote(...): a session is opened, or the constructor raises.
ScrapeOpen(j, ok) ==
    /\ sjob[j].pc = "attempt"
    /\ sjob' = [sjob EXCEPT ![j] =
                  IF ok THEN [sjob[j] EXCEPT !.pc = "session", !.driver = "open",
                                             !.opened = sjob[j].opened + 1]
                  ELSE after_attempt([sjob[j] EXCEPT !.driver = "none"], "raised",
                                     NoGot, NoPage)]
    /\ UNCHANGED <<sem, waiters, gate_vars, job_vars, scrape_rest>>

\* The rest of _browser_scrape (driver.get, the extraction, the finally block)
\* and the loop body of _browser_scrape_with_retry around it.  quit is "ok",
\* "webdriver" (WebDriverException, logged) or "other" (any other exception).
\* The page is remembered when it was loaded (history only).
ScrapeAttempt(j, page, get_ok, quit) ==
    /\ sjob[j].pc = "session"
    /\ LET got == IF get_ok THEN browser_scrape(page) ELSE NoGot
           after == finally_quit(sjob[j].driver, ~get_ok)
           called == after # sjob[j].driver
           outcome == IF ~get_ok \/ (called /\ quit = "other") THEN "raised"
                      ELSE IF got.images = <<>> THEN "empty" ELSE "images"
       IN  sjob' = [sjob EXCEPT ![j] =
                      after_attempt([sjob[j] EXCEPT
                                        !.driver = after,
                                        !.quits = IF called THEN sjob[j].quits + 1
                                                  ELSE sjob[j].quits],
                                    outcome, got, IF get_ok THEN page ELSE NoPage)]
    /\ UNCHANGED <<sem, waiters, gate_vars, job_vars, scrape_rest>>

\* The executor future resolves and "async with" releases the semaphore.
ScrapeLeave(j) ==
    /\ sjob[j].pc = "returned"
    /\ LET next == wake_up_next(waiters, sjob) IN
       /\ sem' = IF next # 0 THEN sem ELSE sem + 1
       /\ sjob' = [k \in ScrapeJobs |->
                     IF k = j THEN [sjob[j] EXCEPT !.pc = "done"]
                     ELSE IF k = next THEN [sjob[k] EXCEPT !.pc = "woken"]
                     ELSE sjob[k]]
    /\ UNCHANGED <<waiters, gate_vars, job_vars, scrape_rest>>

\* scrape_images goes on to the downloads; the slot can serve another call.
ScrapeReturn(j) ==
    /\ sjob[j].pc = "done"
    /\ sjob' = [sjob EXCEPT ![j] = IdleScrape]
    /\ UNCHANGED <<sem, waiters, gate_vars, job_vars, scrape_rest>>

\* What a selector strategy can find on the pages considered.
FindTimeout == [srcs |-> <<>>, raised |-> TRUE]
FindImgs == [srcs |-> <<SrcCdn, SrcData, "", SrcOtodom>>, raised |-> FALSE]
FindPartial == [srcs |-> <<SrcOther>>, raised |-> TRUE]
Finds == {NoFind, FindTimeout, FindImgs, FindPartial}
ScanFinds == {NoFind, [srcs |-> <<SrcOther, SrcCdn, SrcPlaceholder>>, raised |-> FALSE],
              [srcs |-> <<SrcOtodom>>, raised |-> TRUE]}

\* The four selectors of the otodom branch.
Selectors == 1 .. 4

OtodomPages == [site : {"otodom"}, sel : [Selectors -> Finds], fallback : ScanFinds,
                slides : {<<>>}]
OlxPages == [site : {"olx"}, sel : {<<>>}, fallback : {NoFind},
             slides : {<<>>, <<SrcCdn, "", SrcOther>>}]
OtherPages == [site : {"other"}, sel : {<<>>}, fallback : {NoFind}, slides : {<<>>}]
Pages == OtodomPages \cup OlxPages \cup OtherPages

QuitOutcomes == {"ok", "webdriver", "other"}

\* Pages of the pool specification: a call finds nothing at its first attempt
\* and gets its references from the third selector at the next one.
PoolPage(attempt) ==
    IF attempt = 1
    THEN [site |-> "olx", sel |-> <<>>, fallback |-> NoFind, slides |-> <<>>]
    ELSE [site |-> "otodom", sel |-> <<NoFind, FindTimeout, FindImgs, NoFind>>,
          fallback |-> NoFind, slides |-> <<>>]

InitScrape == GateInit({{}}, {Unreadable}) /\ JobsInit /\ SvcInit /\ DlvInit

\* All calls contend for the semaphore; every call needs two attempts.
NextPool ==
    \/ \E j \in ScrapeJobs : ScrapeEnter(j)
    \/ \E j \in ScrapeJobs : ScrapeWake(j)
    \/ \E j \in ScrapeJobs : ScrapeOpen(j, TRUE)
    \/ \E j \in ScrapeJobs : ScrapeAttempt(j, PoolPage(sjob[j].attempt), TRUE, "ok")
    \/ \E j \in ScrapeJobs : ScrapeLeave(j)
    \/ \E j \in ScrapeJobs : ScrapeReturn(j)

SpecPool == InitScrape /\ [][NextPool]_vars

\* The worker threads keep running: while some call can take a step after
\* entering scrape_images, one of them does (page loads and waits time out,
\* the retry loop is bounded); the event loop resumes every woken waiter.
ScrapeStep ==
    \/ \E j \in ScrapeJobs : ScrapeWake(j)
    \/ \E j \in ScrapeJobs : ScrapeOpen(j, TRUE)
    \/ \E j \in ScrapeJobs : ScrapeAttempt(j, PoolPage(sjob[j].attempt), TRUE, "ok")
    \/ \E j \in ScrapeJobs : ScrapeLeave(j)

SpecPoolLive ==
    SpecPool /\ WF_vars(ScrapeStep) /\ \A j \in ScrapeJobs : WF_vars(ScrapeWake(j))

\* One call alone, with every page and every failure of the session.
ExtractJob == 1

NextExtract ==
    \/ ScrapeEnter(ExtractJob)
    \/ \E ok \in BOOLEAN : ScrapeOpen(ExtractJob, ok)
    \/ \E page \in Pages, get_ok \in BOOLEAN, quit \in QuitOutcomes :
          ScrapeAttempt(ExtractJob, page, get_ok, quit)
    \/ ScrapeLeave(ExtractJob)
    \/ ScrapeReturn(ExtractJob)

SpecExtract == InitScrape /\ [][NextExtract]_vars

\* Sessions opened by a call and not yet quit.
OpenSessions == {j \in ScrapeJobs : sjob[j].driver = "open"}

\* C13: once _browser_scrape_with_retry has returned, quit has been called on
\* every session the call opened and none of them is still held open; the
\* same holds between two attempts of the call.
C13_SessionTornDown ==
    \A j \in ScrapeJobs :
        sjob[j].pc \in {"attempt", "returned", "done"}
            => sjob[j].driver # "open" /\ sjob[j].quits = sjob[j].opened

\* A call returned after three attempts that each opened a session and
\* raised, and every session was quit.
C13_Witness ==
    /\ sjob[ExtractJob].pc = "returned"
    /\ sjob[ExtractJob].outcomes = <<"raised", "raised", "raised">>
    /\ sjob[ExtractJob].opened = SCRAPE_RETRIES + 1
    /\ sjob[ExtractJob].quits = SCRAPE_RETRIES + 1

\* C14: at most SCRAPE_CONCURRENCY sessions are open at any time; a call that
\* waits for the semaphore has no session and holds no permit, it is served
\* only in the step in which another call leaves the extraction section, and
\* every waiting call eventually proceeds.
C14_PoolBounded ==
    /\ [](Cardinality(OpenSessions) <= SCRAPE_CONCURRENCY)
    /\ [](\A j \in ScrapeJobs : sjob[j].pc = "wait" => sjob[j].driver = "none")
    /\ [][\A j \in ScrapeJobs :
             sjob[j].pc = "wait" /\ sjob'[j].pc # "wait"
                => \E k \in ScrapeJobs \ {j} :
                      \/ sjob[k].pc = "returned" /\ sjob'[k].pc = "done"
                      \/ sjob[k].pc = "woken" /\ sjob'[k].pc = "attempt"]_vars
    /\ \A j \in ScrapeJobs : (sjob[j].pc = "wait") ~> (sjob[j].pc = "attempt")

\* Two sessions are open and a third call waits for the semaphore.
C14_Witness ==
    /\ Cardinality(OpenSessions) = SCRAPE_CONCURRENCY
    /\ \E j \in ScrapeJobs : sjob[j].pc = "wait"
    /\ sem = 0

\* Attempts of the call that ended, and whether all of them failed.
Made(j) == Len(sjob[j].outcomes)
AllFailed(j) == \A i \in 1 .. Made(j) : sjob[j].outcomes[i] \in {"raised", "empty"}
Returned(j) == sjob[j].pc \in {"returned", "done"}

\* C15: a call makes at most SCRAPE_RETRIES + 1 attempts; it is in a further
\* attempt only after attempts that all raised or came back empty; it returns
\* the references of its first non-empty attempt, or after SCRAPE_RETRIES + 1
\* failed ones; after failed attempt number i that is not the last it sleeps
\* i times the base delay, and it does not sleep after the last attempt.
C15_BoundedLinearRetry ==
    \A j \in ScrapeJobs :
        /\ Made(j) <= SCRAPE_RETRIES + 1
        /\ sjob[j].pc \in {"attempt", "session"}
              => /\ sjob[j].attempt = Made(j) + 1
                 /\ sjob[j].attempt <= SCRAPE_RETRIES + 1
                 /\ AllFailed(j)
                 /\ sjob[j].sleeps = [i \in 1 .. Made(j) |-> SCRAPE_RETRY_BACKOFF_S * i]
        /\ Returned(j)
              => /\ Made(j) >= 1
                 /\ \A i \in 1 .. (Made(j) - 1) : sjob[j].outcomes[i] \in {"raised", "empty"}
                 /\ sjob[j].outcomes[Made(j)] = "images"
                       => /\ sjob[j].result = browser_scrape(sjob[j].page).images
                          /\ sjob[j].result # <<>>
                 /\ sjob[j].outcomes[Made(j)] # "images" => Made(j) = SCRAPE_RETRIES + 1
                 /\ sjob[j].sleeps =
                        [i \in 1 .. (Made(j) - 1) |-> SCRAPE_RETRY_BACKOFF_S * i]

\* The third attempt of a call succeeded after sleeps of 2 and 4 seconds.
C15_Witness ==
    /\ sjob[ExtractJob].pc = "returned"
    /\ sjob[ExtractJob].outcomes = <<"empty", "raised", "images">>
    /\ sjob[ExtractJob].sleeps = <<SCRAPE_RETRY_BACKOFF_S, SCRAPE_RETRY_BACKOFF_S * 2>>
    /\ sjob[ExtractJob].result # <<>>

\* C16: the extraction signals failure (the empty list, which no successful
\* extraction returns) if and only if SCRAPE_RETRIES + 1 attempts were made
\* and every one raised or came back empty.
C16_FailsOnlyWhenExhausted ==
    \A j \in ScrapeJobs :
        Returned(j)
            => /\ sjob[j].result = <<>> <=> (Made(j) = SCRAPE_RETRIES + 1 /\ AllFailed(j))
               /\ sjob[j].result = <<>> => sjob[j].attempt = SCRAPE_RETRIES + 1
               /\ sjob[j].result # <<>> <=> sjob[j].outcomes[Made(j)] = "images"

\* A call gave up after one attempt that raised and two that found nothing.
C16_Witness ==
    /\ sjob[ExtractJob].pc = "returned"
    /\ sjob[ExtractJob].result = <<>>
    /\ sjob[ExtractJob].outcomes = <<"raised", "empty", "empty">>
    /\ "extract.failed" \in sjob[ExtractJob].log

\* The successful attempt of the call ran on an otodom page whose first two
\* selectors gave no element and whose third gave references.
ThirdSelectorCase(j) ==
    /\ Returned(j)
    /\ sjob[j].outcomes[Made(j)] = "images"
    /\ sjob[j].page.site = "otodom"
    /\ sjob[j].page.sel[1].srcs = <<>>
    /\ sjob[j].page.sel[2].srcs = <<>>
    /\ ~sjob[j].page.sel[3].raised
    /\ collect(sjob[j].page.sel[3].srcs) # <<>>

\* C17 as claimed: in that case the call returns the third selector's
\* references in page order and the log holds extract.recovered.
C17_ThirdSelectorRecovered ==
    \A j \in ScrapeJobs :
        ThirdSelectorCase(j)
            => /\ sjob[j].result = collect(sjob[j].page.sel[3].srcs)
               /\ "extract.recovered" \in sjob[j].log

\* C17: in that case the call returns the third selector's references in
\* page order and logs otodom.extract.success; extract.recovered is logged
\* exactly when the successful attempt was not the first of the call.
C17_ThirdSelectorReturned ==
    \A j \in ScrapeJobs :
        ThirdSelectorCase(j)
            => /\ sjob[j].result = collect(sjob[j].page.sel[3].srcs)
               /\ sjob[j].found = 3
               /\ "otodom.extract.success" \in sjob[j].log
               /\ "extract.recovered" \in sjob[j].log <=> Made(j) > 1

\* The first attempt of a call got its two references from the third
\* selector, and nothing was logged as recovered.
C17_Witness ==
    /\ ThirdSelectorCase(ExtractJob)
    /\ Made(ExtractJob) = 1
    /\ Len(sjob[ExtractJob].result) = 2
    /\ "extract.recovered" \notin sjob[ExtractJob].log

(***************************************************************************)
(* _fetch_image                                                            *)
(***************************************************************************)

\* What session.get can end in: a timeout, a status other than 200, another
\* exception, or status 200 with a body that holds bytes or none.
Failures == {"timeout", "non200", "error"}
Responses == Failures \cup {"ok", "ok_empty"}

\* await resp.read() of a 200 response ("": b"").
response_body(resp) == IF resp = "ok" THEN "body" ELSE ""

\* attempt <= IMAGE_FETCH_RETRIES
fetch_retries_left(attempt) == attempt <= IMAGE_FETCH_RETRIES

\* Variant of the backoff that does not grow.
fetch_sleep_flat(attempt) == IMAGE_FETCH_RETRY_BACKOFF_S

\* asyncio.sleep(IMAGE_FETCH_RETRY_BACKOFF_S * attempt)
fetch_sleep(attempt) == IMAGE_FETCH_RETRY_BACKOFF_S * attempt

\* _process_image calls _fetch_image for image i.
FetchStart(i) ==
    /\ fetch[i].pc = "idle"
    /\ fetch' = [fetch EXCEPT ![i] = [IdleFetch EXCEPT !.pc = "request", !.attempt = 1]]
    /\ UNCHANGED <<dlv_vars, gate_vars, job_vars, writers, sem, waiters, sjob, norm>>

\* One pass of the loop: the request, its answer and the sleep that follows.
FetchRequest(i, resp) ==
    /\ fetch[i].pc = "request"
    /\ LET f == [fetch[i] EXCEPT !.requests = fetch[i].requests + 1, !.last = resp] IN
       fetch' = [fetch EXCEPT ![i] =
                   IF resp \notin Failures
                   THEN [f EXCEPT !.pc = "done", !.result = response_body(resp)]
                   ELSE IF fetch_retries_left(f.attempt)
                   THEN [f EXCEPT !.failed = f.failed + 1, !.attempt = f.attempt + 1,
                                  !.sleeps = Append(f.sleeps, fetch_sleep(f.attempt))]
                   ELSE [f EXCEPT !.failed = f.failed + 1, !.pc = "done", !.result = ""]]
    /\ UNCHANGED <<dlv_vars, gate_vars, job_vars, writers, sem, waiters, sjob, norm>>

\* _process_image goes on with the content.
FetchReturn(i) ==
    /\ fetch[i].pc = "done"
    /\ fetch' = [fetch EXCEPT ![i] = IdleFetch]
    /\ UNCHANGED <<dlv_vars, gate_vars, job_vars, writers, sem, waiters, sjob, norm>>

NextFetch ==
    \/ \E i \in Images : FetchStart(i)
    \/ \E i \in Images, resp \in Responses : FetchRequest(i, resp)
    \/ \E i \in Images : FetchReturn(i)

SpecFetch == InitScrape /\ [][NextFetch]_vars

\* C18 as claimed: a fetch that returned empty bytes made exactly
\* IMAGE_FETCH_RETRIES + 1 requests and every one of them failed.
C18_EmptyOnlyAfterExhaustion ==
    \A i \in Images :
        fetch[i].pc = "done" /\ fetch[i].result = ""
            => /\ fetch[i].requests = IMAGE_FETCH_RETRIES + 1
               /\ fetch[i].failed = IMAGE_FETCH_RETRIES + 1

\* C19: a fetch whose first k requests failed (k <= IMAGE_FETCH_RETRIES) and
\* whose next request was answered with status 200 returns that body after
\* k + 1 requests and sleeps of 1, ..., k times the base delay; while a fetch
\* is running, its attempt number counts its own failed requests only.
C19_SucceedsWithinBudget ==
    \A i \in Images :
        /\ fetch[i].pc = "request"
              => /\ fetch[i].attempt = fetch[i].failed + 1
                 /\ fetch[i].requests = fetch[i].failed
                 /\ fetch[i].failed <= IMAGE_FETCH_RETRIES
        /\ fetch[i].pc = "done" /\ fetch[i].last \notin Failures
              => /\ fetch[i].failed <= IMAGE_FETCH_RETRIES
                 /\ fetch[i].requests = fetch[i].failed + 1
                 /\ fetch[i].result = response_body(fetch[i].last)
                 /\ fetch[i].sleeps =
                        [a \in 1 .. fetch[i].failed |-> IMAGE_FETCH_RETRY_BACKOFF_S * a]

\* One image got its body with the third request while another image of the
\* same job had used up all its requests.
C19_Witness ==
    \E i, k \in Images :
        /\ fetch[i].pc = "done" /\ fetch[i].result = "body"
        /\ fetch[i].failed = IMAGE_FETCH_RETRIES
        /\ fetch[i].sleeps = <<IMAGE_FETCH_RETRY_BACKOFF_S, IMAGE_FETCH_RETRY_BACKOFF_S * 2>>
        /\ fetch[k].pc = "done" /\ fetch[k].failed = IMAGE_FETCH_RETRIES + 1

(***************************************************************************)
(* _normalize_image_url                                                    *)
(***************************************************************************)

\* A URL is the sequence of its pieces; no piece is split by the tests and
\* edits of the function, and different sequences are different texts.
CdnHost == "https://ireland.apollo.olxcdn.com/v1/files/a"
OtherHost == "https://img.otodom.pl/b"
ImagePiece == "/image"
Digits == {"5", "1600"}
TailPieces == {";", "s=", "5", "x", "/", "q=80"}

\* Pieces after the host and the optional "/image".
MaxTail == 5

\* The URLs with at most n pieces after the host and the optional "/image".
UrlsUpTo(n) ==
    {<<h>> \o m \o t : h \in {CdnHost, OtherHost}, m \in {<<>>, <<ImagePiece>>},
                        t \in UNION {[1 .. k -> TailPieces] : k \in 0 .. n}}

\* a directly followed by b somewhere in url
adjacent(url, a, b) == \E i \in 1 .. (Len(url) - 1) : url[i] = a /\ url[i + 1] = b

RECURSIVE digits_end(_, _)
\* The position after the longest run of digits that starts at i.
digits_end(url, i) ==
    IF i <= Len(url) /\ url[i] \in Digits THEN digits_end(url, i + 1) ELSE i

\* Where a match of ;s=\d+x\d+ that starts at i ends (0: no match at i).
match_end(url, i) ==
    IF i + 1 <= Len(url) /\ url[i] = ";" /\ url[i + 1] = "s="
    THEN LET a == digits_end(url, i + 2) IN
         IF a > i + 2 /\ a <= Len(url) /\ url[a] = "x"
         THEN LET b == digits_end(url, a + 1) IN IF b > a + 1 THEN b ELSE 0
         ELSE 0
    ELSE 0

RECURSIVE re_sub(_, _)
\* re.sub(r";s=\d+x\d+", ";s=1600x1600", url) from position i on
re_sub(url, i) ==
    IF i > Len(url) THEN <<>>
    ELSE IF match_end(url, i) # 0
    THEN <<";", "s=", "1600", "x", "1600">> \o re_sub(url, match_end(url, i))
    ELSE <<url[i]>> \o re_sub(url, i + 1)

RECURSIVE rstrip_slash(_)
\* url.rstrip("/")
rstrip_slash(url) ==
    IF url # <<>> /\ url[Len(url)] = "/" THEN rstrip_slash(SubSeq(url, 1, Len(url) - 1))
    ELSE url

has(url, piece) == \E i \in DOMAIN url : url[i] = piece

normalize_image_url(url) ==
    IF has(url, CdnHost) /\ has(url, ImagePiece)
    THEN IF adjacent(url, ";", "s=") THEN re_sub(url, 1)
         ELSE IF adjacent(url, ImagePiece, ";")
         THEN rstrip_slash(url) \o <<"s=", "1600", "x", "1600">>
         ELSE IF url[Len(url)] = ImagePiece
         THEN url \o <<";", "s=", "1600", "x", "1600">>
         ELSE url
    ELSE url

Normalize ==
    /\ norm.pc = "idle"
    /\ norm' = [norm EXCEPT !.pc = "once", !.once = normalize_image_url(norm.url)]
    /\ UNCHANGED <<dlv_vars, gate_vars, job_vars, writers, sem, waiters, sjob, fetch>>

NormalizeAgain ==
    /\ norm.pc = "once"
    /\ norm' = [norm EXCEPT !.pc = "twice", !.twice = normalize_image_url(norm.once)]
    /\ UNCHANGED <<dlv_vars, gate_vars, job_vars, writers, sem, waiters, sjob, fetch>>

NextNormalize == Normalize \/ NormalizeAgain

InitNormalize ==
    GateInit({{}}, {Unreadable}) /\ JobsInit /\ SvcInitUrls(UrlsUpTo(MaxTail)) /\ DlvInit

SpecNormalize == InitNormalize /\ [][NextNormalize]_vars

\* C20 as claimed: normalizing a normalized URL changes nothing.
C20_NormalizeIdempotent ==
    norm.pc = "twice" => norm.twice = norm.once

(***************************************************************************)
(* _remove_watermark                                                       *)
(***************************************************************************)

\* Variant of int() that rounds the quotient up.
int_up(n, d) == (n + d - 1) \div d

\* int(n / d): the float quotient cut toward zero.  For the sizes an image can
\* have, n / d is the correctly rounded exact quotient, and its integer part is
\* the integer part of the exact quotient.
int(n, d) == IF n >= 0 THEN n \div d ELSE -((-n) \div d)

new_height(height, crop_percent) == int(height * (100 - crop_percent), 100)

\* The box handed to Image.crop: left, upper, right, lower.
crop_area(width, height, crop_percent) ==
    <<0, 0, width, new_height(height, crop_percent)>>

RemoveWatermark ==
    /\ wm.pc = "idle"
    /\ wm' = [wm EXCEPT !.pc = "cropped",
                        !.crop_area = crop_area(wm.width, wm.height, wm.crop_percent)]
    /\ UNCHANGED <<gate_vars, job_vars, svc_vars, run, bot_timeout, aux_vars>>

InitCrop ==
    /\ GateInit({{}}, {Unreadable})
    /\ JobsInit
    /\ SvcInit
    /\ DlvInitWith([pc : {"idle"}, width : Widths, height : Heights,
                    crop_percent : Percents, crop_area : {IdleWm.crop_area}], {TRUE})

NextCrop == RemoveWatermark

SpecCrop == InitCrop /\ [][NextCrop]_vars

\* C21: for every height H >= 0 and crop percent p in 0..100 the crop box is
\* (0, 0, width, h) with h = floor(H * (100 - p) / 100): the width is unchanged
\* and rows 0 .. h-1 are kept; h does not grow when p grows, h = H for p = 0,
\* and h = 850 for H = 1000 and p = 15.
C21_CropHeight ==
    wm.pc = "cropped" =>
        LET H == wm.height
            pct == wm.crop_percent
            h == wm.crop_area[4]
        IN  /\ wm.crop_area = <<0, 0, wm.width, h>>
            /\ h >= 0
            /\ h * 100 <= H * (100 - pct)
            /\ H * (100 - pct) < (h + 1) * 100
            /\ \A q \in Percents : q >= pct => new_height(H, q) <= h
            /\ (pct = 0) => (h = H)
            /\ (H = 1000 /\ pct = 15) => (h = 850)

\* The 1000-pixel image cropped by 15 percent, and an image whose quotient is
\* not a whole number.
C21_Witness ==
    /\ wm.pc = "cropped"
    /\ wm.height = 1000
    /\ wm.crop_percent = DEFAULT_CROP_PERCENTAGE
    /\ wm.crop_area[4] = 850
    /\ new_height(7, DEFAULT_CROP_PERCENTAGE) = 5


(***************************************************************************)
(* scrape_images after the extraction, and _do_scrape_and_send             *)
(***************************************************************************)

Min(a, b) == IF a < b THEN a ELSE b

\* What one _process_image task ends with: the path of the cropped file, ""
\* when _fetch_image returned no bytes, or an exception of Image.open, save or
\* _remove_watermark.
Processed == {"path", "", "raised"}

\* Variant of asyncio.gather that returns as soon as one task has ended.
gathered_first(processed) == \E k \in DOMAIN processed : processed[k] # "pending"

\* asyncio.gather returns when every task has ended ...
gathered(processed) == \A k \in DOMAIN processed : processed[k] # "pending"
\* ... and raises as soon as one task has raised.
gather_raises(processed) == \E k \in DOMAIN processed : processed[k] = "raised"

\* Variant of valid that keeps the images whose fetch returned nothing.
valid_unfiltered(processed) == [k \in DOMAIN processed |-> k]

\* valid = [p for p in processed if p]: the assets, named by their place in
\* image_urls.
valid(processed) ==
    SelectSeq([k \in DOMAIN processed |-> k], LAMBDA k : processed[k] = "path")

\* images[i : i + MEDIA_GROUP_SIZE], i counted from 0.
group(images, i) == SubSeq(images, i + 1, Min(i + MEDIA_GROUP_SIZE, Len(images)))

Range(seq) == {seq[k] : k \in DOMAIN seq}

desired_total(attempt) ==
    Min(TG_TIMEOUT_BASE_S + attempt * TG_TIMEOUT_STEP_S, TG_TIMEOUT_MAX_S)

\* _bump_bot_timeout: the total is raised when it is below the desired one; an
\* assignment the session object refuses raises, and the exception is dropped.
bump_bot_timeout(session, desired_total_s) ==
    IF session.total < desired_total_s /\ session.assignable
    THEN [session EXCEPT !.total = desired_total_s]
    ELSE session

\* The finally block: the directory is removed when user_dir names it.
finally(r, outcome) ==
    [r EXCEPT !.pc = "done", !.outcome = outcome,
              !.dir = IF r.user_dir # "" /\ r.dir = "exists" THEN "deleted" ELSE @]

\* The head of the for loop over the groups, at offset i.
enter_group(r, i) ==
    IF i >= Len(r.images)
    THEN [r EXCEPT !.pc = "edit_done", !.i = i]
    ELSE [r EXCEPT !.pc = "send_group", !.i = i, !.attempt = 0, !.last_exc = FALSE,
                   !.groups = Append(@, group(r.images, i))]

\* The head of the for loop over the assets of the group, at its p-th asset;
\* after the last one send.media.failed is logged and the next group starts.
enter_single(r, p) ==
    IF p > Len(group(r.images, r.i))
    THEN enter_group(r, r.i + MEDIA_GROUP_SIZE)
    ELSE [r EXCEPT !.pc = "send_photo", !.p = p, !.attempt_single = 0,
                   !.last_exc_single = FALSE]

\* After the while loop of a group: the fallback runs when last_exc is kept.
after_group_loop(r) ==
    IF r.last_exc
    THEN enter_single([r EXCEPT !.fallback = @ \cup {r.i}], 1)
    ELSE enter_group(r, r.i + MEDIA_GROUP_SIZE)

\* Variant of after_single_loop in which an asset that was not sent ends the
\* fallback of its group.
after_single_loop_abort(r) ==
    IF r.last_exc_single
    THEN enter_group([r EXCEPT !.logged = @ \cup {r.images[r.i + r.p]}],
                     r.i + MEDIA_GROUP_SIZE)
    ELSE enter_single(r, r.p + 1)

\* After the while loop of one asset: send.photo.failed is logged when
\* last_exc_single is kept.
after_single_loop(r) ==
    enter_single([r EXCEPT !.logged = IF r.last_exc_single
                                      THEN @ \cup {r.images[r.i + r.p]} ELSE @],
                 r.p + 1)

run_rest == <<gate_vars, job_vars, svc_vars, wm, aux_vars>>

\* scrape_images up to the wait for the extraction: the directory is made.
RunStart ==
    /\ run.pc = "idle"
    /\ run' = [run EXCEPT !.pc = "extract", !.dir = "exists"]
    /\ UNCHANGED <<run_rest, bot_timeout>>

\* The extraction returns n references; with none scrape_images returns at
\* once, otherwise one _process_image task per reference is created.
Extracted(n) ==
    /\ run.pc = "extract"
    /\ run' = IF n = 0
              THEN [run EXCEPT !.pc = "edit_none", !.extracted = TRUE,
                               !.user_dir = "images"]
              ELSE [run EXCEPT !.pc = "gather", !.extracted = TRUE, !.image_urls = n,
                               !.processed = [k \in 1 .. n |-> "pending"]]
    /\ UNCHANGED <<run_rest, bot_timeout>>

\* One _process_image task ends; the tasks end in any order, and those left
\* behind by a gather that raised still end.
ProcessImage(k, result) ==
    /\ k \in DOMAIN run.processed
    /\ run.processed[k] = "pending"
    /\ run' = [run EXCEPT !.processed[k] = result, !.finished = Append(@, k)]
    /\ UNCHANGED <<run_rest, bot_timeout>>

\* gather returns: scrape_images returns valid and the directory.
GatherReturn ==
    /\ run.pc = "gather"
    /\ gathered(run.processed)
    /\ ~gather_raises(run.processed)
    /\ LET images == valid(run.processed)
       IN  run' = [run EXCEPT !.pc = IF images = <<>> THEN "edit_none" ELSE "increment",
                              !.images = images, !.user_dir = "images"]
    /\ UNCHANGED <<run_rest, bot_timeout>>

\* gather raises: the exception leaves scrape_images before it returns.
GatherRaise ==
    /\ run.pc = "gather"
    /\ gather_raises(run.processed)
    /\ run' = [run EXCEPT !.pc = "except"]
    /\ UNCHANGED <<run_rest, bot_timeout>>

\* stats_service.increment, then the first group.
Increment(ok) ==
    /\ run.pc = "increment"
    /\ run' = IF ok THEN enter_group(run, 0) ELSE [run EXCEPT !.pc = "except"]
    /\ UNCHANGED <<run_rest, bot_timeout>>

\* One pass of the while loop of a group up to its sleep: the timeout bump, the
\* send_media_group call and its outcome.
SendGroup(outcome, delay) ==
    /\ run.pc = "send_group"
    /\ run.attempt < retries
    /\ LET assets == group(run.images, run.i)
           session == bump_bot_timeout(bot_timeout, desired_total(run.attempt))
           call == [kind |-> "group", assets |-> assets, k |-> run.attempt,
                    desired |-> desired_total(run.attempt), timeout |-> session.total,
                    outcome |-> outcome, delay |-> delay]
       IN  /\ bot_timeout' = session
           /\ run' = CASE outcome = "ok" ->
                            after_group_loop([run EXCEPT !.last_exc = FALSE,
                                                         !.sent = @ \cup Range(assets),
                                                         !.last = call])
                       [] outcome = "retry_after" ->
                            [run EXCEPT !.pc = "sleep_group", !.attempt = @ + 1,
                                        !.sleep = delay + 1, !.last = call]
                       [] outcome = "error" ->
                            [run EXCEPT !.pc = "sleep_group", !.attempt = @ + 1,
                                        !.last_exc = TRUE, !.sleep = 3, !.last = call]
    /\ UNCHANGED run_rest

\* The sleep of the group loop ends: the next pass, or the end of the loop.
WakeGroup ==
    /\ run.pc = "sleep_group"
    /\ run' = IF run.attempt < retries
              THEN [run EXCEPT !.pc = "send_group"]
              ELSE after_group_loop(
                       [run EXCEPT !.exhausted = @ \cup {run.i},
                                   !.quiet = IF run.last_exc THEN @
                                             ELSE @ \cup Range(group(run.images, run.i))])
    /\ UNCHANGED <<run_rest, bot_timeout>>

\* One pass of the while loop of one asset of the fallback up to its sleep.
SendPhoto(outcome, delay) ==
    /\ run.pc = "send_photo"
    /\ run.attempt_single < retries_single
    /\ LET asset == run.images[run.i + run.p]
           session == bump_bot_timeout(bot_timeout, desired_total(run.attempt_single))
           call == [kind |-> "photo", assets |-> <<asset>>, k |-> run.attempt_single,
                    desired |-> desired_total(run.attempt_single),
                    timeout |-> session.total, outcome |-> outcome, delay |-> delay]
           r == [run EXCEPT !.tried = @ \cup {asset}, !.last = call]
       IN  /\ bot_timeout' = session
           /\ run' = CASE outcome = "ok" ->
                            after_single_loop([r EXCEPT !.last_exc_single = FALSE,
                                                        !.sent = @ \cup {asset}])
                       [] outcome = "retry_after" ->
                            [r EXCEPT !.pc = "sleep_photo", !.attempt_single = @ + 1,
                                      !.sleep = delay + 1]
                       [] outcome = "error" ->
                            [r EXCEPT !.pc = "sleep_photo", !.attempt_single = @ + 1,
                                      !.last_exc_single = TRUE, !.sleep = 2]
    /\ UNCHANGED run_rest

\* The sleep of the asset loop ends.
WakePhoto ==
    /\ run.pc = "sleep_photo"
    /\ run' = IF run.attempt_single < retries_single
              THEN [run EXCEPT !.pc = "send_photo"]
              ELSE after_single_loop(
                       [run EXCEPT !.quiet = IF run.last_exc_single THEN @
                                             ELSE @ \cup {run.images[run.i + run.p]}])
    /\ UNCHANGED <<run_rest, bot_timeout>>

\* status.edit_text with the count of images.
EditDone(ok) ==
    /\ run.pc = "edit_done"
    /\ run' = IF ok
              THEN [run EXCEPT !.pc = "save", !.reported = Len(run.images)]
              ELSE [run EXCEPT !.pc = "except"]
    /\ UNCHANGED <<run_rest, bot_timeout>>

\* _save_user_data, then the finally block.
SaveUserData(ok) ==
    /\ run.pc = "save"
    /\ run' = IF ok THEN finally(run, "completed") ELSE [run EXCEPT !.pc = "except"]
    /\ UNCHANGED <<run_rest, bot_timeout>>

\* The branch without images: the status edit, then the finally block.
EditNone(ok) ==
    /\ run.pc = "edit_none"
    /\ run' = IF ok THEN finally(run, "no_images") ELSE [run EXCEPT !.pc = "except"]
    /\ UNCHANGED <<run_rest, bot_timeout>>

\* The except branch, then the finally block.
Except ==
    /\ run.pc = "except"
    /\ run' = finally(run, "failed")
    /\ UNCHANGED <<run_rest, bot_timeout>>

SendOutcomes == {"ok", "retry_after", "error"}

InitDeliver ==
    /\ GateInit({{}}, {Unreadable})
    /\ JobsInit
    /\ SvcInit
    /\ DlvInitWith({IdleWm}, BOOLEAN)

NextDeliver ==
    \/ RunStart
    \/ \E n \in 0 .. MaxRefs : Extracted(n)
    \/ \E k \in 1 .. MaxRefs, result \in Processed : ProcessImage(k, result)
    \/ GatherReturn
    \/ GatherRaise
    \/ \E ok \in BOOLEAN : Increment(ok)
    \/ \E outcome \in SendOutcomes, delay \in Delays : SendGroup(outcome, delay)
    \/ WakeGroup
    \/ \E outcome \in SendOutcomes, delay \in Delays : SendPhoto(outcome, delay)
    \/ WakePhoto
    \/ \E ok \in BOOLEAN : EditDone(ok)
    \/ \E ok \in BOOLEAN : SaveUserData(ok)
    \/ \E ok \in BOOLEAN : EditNone(ok)
    \/ Except

SpecDeliver == InitDeliver /\ [][NextDeliver]_vars


\* The positions inside the for loop over the groups.
DeliveryPcs == {"send_group", "sleep_group", "send_photo", "sleep_photo"}

\* The assets of the batches submitted so far, batch after batch.
RECURSIVE Flat(_)
Flat(seqs) == IF seqs = <<>> THEN <<>> ELSE Head(seqs) \o Flat(Tail(seqs))

\* C22: whatever the sends answer (rate-limit signals or other errors, on
\* batch or single sends), the delivery loop is left only towards the
\* completion report, never towards the except branch; by then every batch
\* has been submitted and every asset of a batch that fell back has been
\* submitted on its own; and the run whose report and save succeed ends
\* completed.
C22_DeliveryNeverRaises ==
    [][ /\ (run.pc \in DeliveryPcs) => (run'.pc \in DeliveryPcs \cup {"edit_done"})
        /\ (run.pc \in DeliveryPcs /\ run'.pc = "edit_done") =>
               /\ Flat(run'.groups) = run'.images
               /\ \A i \in run'.fallback :
                      Range(group(run'.images, i)) \subseteq run'.tried
        /\ (run.pc = "save" /\ run'.pc = "done") => (run'.outcome = "completed") ]_vars

\* The first asset failed for good in the fallback of the first batch, the
\* second asset was still submitted, the second batch was sent, and the run
\* ended completed.
C22_Witness ==
    /\ run.pc = "done"
    /\ run.outcome = "completed"
    /\ run.images = <<1, 2, 3>>
    /\ 0 \in run.fallback
    /\ 1 \in run.logged
    /\ 2 \in run.tried
    /\ 3 \in run.sent


\* C23: the count reported when the run completes is the number of assets
\* whose send succeeded; an asset whose batch send and single sends all failed
\* is logged as send.photo.failed and is not counted.
C23_ReportedCountIsSent ==
    (run.reported # -1) =>
        /\ run.reported = Cardinality(run.sent)
        /\ \A a \in run.tried \ run.sent : a \in run.logged

\* C24: a batch whose loop used all its attempts without a send is then sent
\* asset by asset, every asset of it in order.
C24_ExhaustedBatchFallsBack ==
    \A i \in run.exhausted :
        /\ i \in run.fallback
        /\ (run.i > i \/ run.pc \notin DeliveryPcs) =>
               Range(group(run.images, i)) \subseteq run.tried

\* C25: no send is given up after rate-limit signals alone: a batch or an
\* asset that met no other error is resent until it is sent.
C25_RateLimitNeverAbandons ==
    run.quiet = {}

\* C26: after a rate-limit signal with delay d on a batch send, the run sleeps
\* d + 1 seconds and its next step sends the same batch again; when that send
\* succeeds the assets of the batch are delivered and no fallback runs for it.
C26_RateLimitedBatchResent ==
    [][ (run.pc = "sleep_group" /\ run.last.outcome = "retry_after") =>
            /\ run.sleep = run.last.delay + 1
            /\ run'.pc = "send_group"
            /\ run'.i = run.i
            /\ group(run'.images, run'.i) = run.last.assets
            /\ run'.sent = run.sent /\ run'.tried = run.tried ]_vars

\* C27: the timeout in effect for attempt k of a send is
\* min(base + step * k, ceiling).
C27_TimeoutPerAttempt ==
    (run.last.kind # "") =>
        /\ run.last.timeout =
               Min(TG_TIMEOUT_BASE_S + TG_TIMEOUT_STEP_S * run.last.k, TG_TIMEOUT_MAX_S)
        /\ run.last.timeout <= TG_TIMEOUT_MAX_S

\* C28: when the run has reached a terminal state, the directory made for it
\* has been deleted.
C28_DirectoryDeleted ==
    (run.pc = "done") => (run.dir = "deleted")


\* Whether a send to the chat has been made or is being made.
Sending == run.pc \in DeliveryPcs \/ run.groups # <<>> \/ run.last.kind # ""

\* C29: no _process_image task exists before the extraction has returned, no
\* send is made while a task of the run is still pending, and an extraction
\* that returned no references is followed by no fetch and no send.
C29_StagesInOrder ==
    /\ (run.processed # <<>>) => run.extracted
    /\ (run.pc \in {"idle", "extract"}) => (run.processed = <<>> /\ ~Sending)
    /\ Sending => \A k \in DOMAIN run.processed : run.processed[k] # "pending"
    /\ (run.extracted /\ run.image_urls = 0) => (run.processed = <<>> /\ ~Sending)

\* Three images fetched in another order than found, all delivered.
C29_Witness ==
    /\ run.pc = "done"
    /\ run.outcome = "completed"
    /\ run.finished = <<2, 3, 1>>
    /\ run.sent = {1, 2, 3}

\* The references whose _process_image task returned a path.
Fetched == {k \in DOMAIN run.processed : run.processed[k] = "path"}

\* C30: the assets submitted, batch after batch, are in discovery order and
\* are exactly the references whose fetch gave an image, none skipped and none
\* added, in consecutive groups of at most MEDIA_GROUP_SIZE of which only the
\* last may be shorter; the fallback submits the assets of its batch one by
\* one in the same order.
C30_DiscoveryOrderKept ==
    LET F == Flat(run.groups)
    IN  /\ \A a, b \in DOMAIN F : a < b => F[a] < F[b]
        /\ Range(F) \subseteq Fetched
        /\ \A k \in Fetched \ Range(F) : \A a \in Range(F) : a < k
        /\ (run.pc \in {"edit_done", "save"}) => (Range(F) = Fetched)
        /\ \A g \in DOMAIN run.groups :
               /\ Len(run.groups[g]) \in 1 .. MEDIA_GROUP_SIZE
               /\ (g < Len(run.groups)) => (Len(run.groups[g]) = MEDIA_GROUP_SIZE)
        /\ run.tried \subseteq Range(F)
        /\ (run.pc \in {"send_photo", "sleep_photo"}) =>
               LET G == group(run.images, run.i)
               IN  /\ G = run.groups[Len(run.groups)]
                   /\ {G[q] : q \in 1 .. run.p - 1} \subseteq run.tried
                   /\ run.tried \cap Range(G) \subseteq {G[q] : q \in 1 .. run.p}

\* The third image was fetched first and the second fetch returned nothing:
\* the batch is the first and the third image, then sent one by one.
C30_Witness ==
    /\ run.pc = "edit_done"
    /\ run.processed = <<"path", "", "path">>
    /\ run.finished = <<3, 2, 1>>
    /\ run.groups = << <<1, 3>> >>
    /\ run.tried = {1, 3}


(***************************************************************************)
(* The selector cascade of one attempt                                     *)
(***************************************************************************)

\* The strategies of a page that end without raising and give references.
Yielding(page) ==
    {i \in DOMAIN page.sel : ~page.sel[i].raised /\ collect(page.sel[i].srcs) # <<>>}

\* C34: the list an attempt on an otodom page returns is the list of the first
\* strategy that gives references, with nothing carried over from a strategy
\* that raised part-way; the scan of all images contributes only when no
\* strategy gave a reference.
C34_FirstYieldingStrategyOnly ==
    \A j \in ScrapeJobs :
        (Returned(j) /\ sjob[j].outcomes[Made(j)] = "images"
                     /\ sjob[j].page.site = "otodom")
            => LET page == sjob[j].page
                   first == CHOOSE i \in Yielding(page) :
                                \A k \in Yielding(page) : i <= k
               IN  IF Yielding(page) # {}
                   THEN sjob[j].result = collect(page.sel[first].srcs)
                   ELSE /\ sjob[j].result = collect_cdn(page.fallback.srcs)
                        /\ \A i \in DOMAIN page.sel : collect(page.sel[i].srcs) = <<>>


\* C39: a run whose scrape_images call returned assets submits every batch of
\* them before it ends, also when stats_service.increment raised.
C39_StatsErrorKeepsDelivery ==
    (run.pc = "done" /\ run.images # <<>>) => (Flat(run.groups) = run.images)


(***************************************************************************)
(* stats_service.rank                                                      *)
(***************************************************************************)

\* Counts a usage table holds in this model.
Counts == {1, 2}
\* Display names of the ids, as usernames maps them.
Handles == <<"@a", "@b", "@c", "@d", "@e">>

Reverse(s) == [k \in 1 .. Len(s) |-> s[Len(s) + 1 - k]]

\* One step of the stable ascending sort: e goes behind every pair whose key
\* is not larger.
RECURSIVE insert_sorted(_, _)
insert_sorted(s, e) ==
    IF s = <<>> THEN <<e>>
    ELSE IF s[Len(s)].count <= e.count THEN Append(s, e)
    ELSE Append(insert_sorted(SubSeq(s, 1, Len(s) - 1), e), s[Len(s)])

\* list.sort(key=lambda kv: kv[1]): stable, ascending.
RECURSIVE sort(_)
sort(pairs) ==
    IF pairs = <<>> THEN <<>>
    ELSE insert_sorted(sort(SubSeq(pairs, 1, Len(pairs) - 1)), pairs[Len(pairs)])

\* Variant that reverses the ascending order at the end only.
sort_reverse_naive(pairs) == Reverse(sort(pairs))

\* pairs.sort(key=lambda kv: kv[1], reverse=True): the list is reversed, sorted
\* stably in ascending order and reversed again.
sort_reverse(pairs) == Reverse(sort(Reverse(pairs)))

\* usernames.get(user_id, user_id) if usernames else user_id
label(usernames, user_id) ==
    IF user_id \in DOMAIN usernames THEN usernames[user_id] ELSE user_id

rank(items, usernames) ==
    LET pairs == sort_reverse(items)
    IN  [k \in 1 .. Len(pairs) |->
            [label |-> label(usernames, pairs[k].user_id), count |-> pairs[k].count]]

Rank ==
    /\ rk.pc = "idle"
    /\ rk' = [rk EXCEPT !.pc = "ranked", !.out = rank(rk.items, rk.usernames)]
    /\ UNCHANGED <<gate_vars, job_vars, svc_vars, wm, run, bot_timeout, ucrop, fwd>>

\* The items of a dict with n keys: the keys are distinct, in insertion order.
ItemLists(n) ==
    {s \in [1 .. n -> [user_id : {StrOf(i) : i \in 1 .. MaxEntries}, count : Counts]] :
        \A a, b \in 1 .. n : a # b => s[a].user_id # s[b].user_id}

UsernameTables ==
    {[u \in named |-> Handles[IntOf(u)]] : named \in {{}, {"1"}, {"1", "2"}}}

RankCalls ==
    {[NoRank EXCEPT !.items = items, !.usernames = usernames] :
        items \in UNION {ItemLists(n) : n \in 0 .. MaxEntries},
        usernames \in UsernameTables}

InitRank ==
    /\ GateInit({{}}, {Unreadable})
    /\ JobsInit
    /\ SvcInit
    /\ wm = IdleWm
    /\ run = IdleRun
    /\ bot_timeout = [total |-> tg_total_timeout, assignable |-> TRUE]
    /\ AuxInit(RankCalls)

NextRank == Rank

SpecRank == InitRank /\ [][NextRank]_vars

Arrangements(n) ==
    {f \in [1 .. n -> 1 .. n] : \A a, b \in 1 .. n : a # b => f[a] # f[b]}

\* C33: the result of rank is a rearrangement of the input entries, each taken
\* once, with counts that never increase, and entries of equal count in the
\* order the input has them.
C33_RankStableDescending ==
    rk.pc = "ranked"
        => \E f \in Arrangements(Len(rk.items)) :
              /\ Len(rk.out) = Len(rk.items)
              /\ \A k \in 1 .. Len(rk.items) :
                    rk.out[k] = [label |-> label(rk.usernames, rk.items[f[k]].user_id),
                                 count |-> rk.items[f[k]].count]
              /\ \A k \in 1 .. Len(rk.items) - 1 :
                    /\ rk.items[f[k]].count >= rk.items[f[k + 1]].count
                    /\ rk.items[f[k]].count = rk.items[f[k + 1]].count => f[k] < f[k + 1]

\* Three entries, the first and the last with the same count below the middle
\* one: the middle entry leads and the other two keep their order.
C33_Witness ==
    /\ rk.pc = "ranked"
    /\ rk.items = <<[user_id |-> "1", count |-> 1], [user_id |-> "2", count |-> 2],
                    [user_id |-> "3", count |-> 1]>>
    /\ rk.usernames = <<>>
    /\ rk.out = <<[label |-> "2", count |-> 2], [label |-> "1", count |-> 1],
                  [label |-> "3", count |-> 1]>>


(***************************************************************************)
(* The stored crop percentage: set_crop_cb against a running job           *)
(***************************************************************************)

crop_rest == <<gate_vars, job_vars, svc_vars, wm, run, bot_timeout, rk, fwd>>

\* _process_url: data = _get_user_data(user_id) and
\* crop = data.get("crop_percentage", DEFAULT_CROP_PERCENTAGE)
JobLoad ==
    /\ ucrop.job.pc = "idle"
    /\ ucrop' = [ucrop EXCEPT !.job =
                    [pc |-> "running", data |-> ucrop.stored,
                     crop |-> IF ucrop.stored = NoCrop THEN DEFAULT_CROP_PERCENTAGE
                              ELSE ucrop.stored]]
    /\ UNCHANGED crop_rest

\* _save_user_data: SET of the whole dict; a read-only store is ignored.
save_user_data(stored, crop_percentage, ok) == IF ok THEN crop_percentage ELSE stored

\* The job has sent its images: data.update({..., "crop_percentage": crop}) on
\* the dict read at the start, then _save_user_data.
JobSave(ok) ==
    /\ ucrop.job.pc = "running"
    /\ ucrop' = [ucrop EXCEPT !.stored = save_user_data(ucrop.stored, ucrop.job.crop, ok),
                              !.job = IdleCrop.job]
    /\ UNCHANGED crop_rest

\* The job found no image or failed: nothing is saved.
JobEnd ==
    /\ ucrop.job.pc = "running"
    /\ ucrop' = [ucrop EXCEPT !.job = IdleCrop.job]
    /\ UNCHANGED crop_rest

\* set_crop_cb up to its first await: the value is one of the offered ones and
\* the user's dict is read.
CropLoad(value) ==
    /\ ucrop.cb.pc = "idle"
    /\ value \in CropValues
    /\ ucrop' = [ucrop EXCEPT !.cb = [pc |-> "loaded", value |-> value,
                                      data |-> ucrop.stored]]
    /\ UNCHANGED crop_rest

\* data["crop_percentage"] = value; _save_user_data; the message is edited.
\* chosen: the last selection that was stored (history only).
CropSave(ok) ==
    /\ ucrop.cb.pc = "loaded"
    /\ ucrop' = [ucrop EXCEPT !.stored = save_user_data(ucrop.stored, ucrop.cb.value, ok),
                              !.chosen = IF ok THEN ucrop.cb.value ELSE ucrop.chosen,
                              !.cb = IdleCrop.cb]
    /\ UNCHANGED crop_rest

InitSelect ==
    /\ GateInit({{}}, {Unreadable})
    /\ JobsInit
    /\ SvcInit
    /\ wm = IdleWm
    /\ run = IdleRun
    /\ bot_timeout = [total |-> tg_total_timeout, assignable |-> TRUE]
    /\ rk = NoRank
    /\ ucrop \in {[IdleCrop EXCEPT !.stored = v] : v \in CropValues \cup {NoCrop}}
    /\ fwd = IdleFwd

NextSelect ==
    \/ JobLoad
    \/ \E ok \in BOOLEAN : JobSave(ok)
    \/ JobEnd
    \/ \E value \in CropValues : CropLoad(value)
    \/ \E ok \in BOOLEAN : CropSave(ok)

SpecSelect == InitSelect /\ [][NextSelect]_vars

\* C38: while no selection is being handled, the stored crop percentage is
\* the one the user selected last, whatever jobs of that user end meanwhile.
C38_SelectionKept ==
    (ucrop.chosen # NoCrop /\ ucrop.cb.pc = "idle") => ucrop.stored = ucrop.chosen


(***************************************************************************)
(* Admin router: /allow_username, /allow_from_forward and forwarded        *)
(* messages                                                                *)
(***************************************************************************)

\* /allow_from_forward commands in one behaviour.
MaxFlags == 2

fwd_rest == <<backup, redis_up, now, cached_allowed_ids, last_cache_refresh,
              restore_attempted, refresher_task, pass, cpc, last_call, adm,
              job_vars, svc_vars, wm, run, bot_timeout, rk, ucrop>>

\* allow_username from the sender test to the first store write. val is what
\* GET username_to_id:<name> holds, chat the id bot.get_chat gives (NoUser:
\* it raised or gave no id).
parse_allow_username(sender, parts, ok, val, chat) ==
    IF ~is_admin(sender) THEN [result |-> "ignored", uid |-> NoUser]
    ELSE IF Len(parts) # 2 \/ parts[2] \notin AtNames
    THEN [result |-> "usage", uid |-> NoUser]
    ELSE IF ~ok THEN [result |-> "aborted", uid |-> NoUser]
    ELSE IF val # "" /\ IsIntStr(val) THEN [result |-> "go", uid |-> IntOf(val)]
    ELSE IF chat # NoUser THEN [result |-> "go", uid |-> chat]
    ELSE [result |-> "name_saved", uid |-> NoUser]

\* From the SADD on, the handler goes the way allow does: SADD, the name keys,
\* the answer, _write_backup(add_id=uid).
AllowUsername(sender, args, val, chat) ==
    /\ adm.pc = "idle"
    /\ LET r == parse_allow_username(sender, <<"allow_username">> \o args, redis_up,
                                     val, chat) IN
       adm' = IF r.result = "go"
              THEN [IdleAdm EXCEPT !.pc = "mutate", !.op = "allow", !.uid = r.uid,
                                   !.sender = sender]
              ELSE AdmDone("allow_username", r.uid, r.result)
    /\ UNCHANGED <<store, backup, redis_up, now, cached_allowed_ids, last_cache_refresh,
                   restore_attempted, refresher_task, pass, cpc, last_call,
                   job_vars, svc_vars, dlv_vars>>

\* allow_from_forward: SET admin:await_forward:<admin_id> "1" EX 300
AllowFromForward(sender) ==
    /\ fwd.issued < MaxFlags
    /\ is_admin(sender)
    /\ redis_up
    /\ fwd' = [fwd EXCEPT !.flags = @ \cup {sender}, !.issued = @ + 1]
    /\ UNCHANGED <<store, fwd_rest>>

\* The key expires.
FlagExpire(admin) ==
    /\ admin \in fwd.flags
    /\ fwd' = [fwd EXCEPT !.flags = @ \ {admin}]
    /\ UNCHANGED <<store, fwd_rest>>

FwdDone(h, result) == [IdleFwdHandler EXCEPT !.pc = "done", !.result = result]

\* handle_forward_allow up to redis.delete: the sender test, GET of the flag,
\* the id of the forwarded message (NoUser: hidden by privacy settings).
ForwardGet(k, sender, uid) ==
    /\ fwd.h[k].pc = "idle"
    /\ LET h == [IdleFwdHandler EXCEPT !.sender = sender, !.uid = uid] IN
       fwd' = [fwd EXCEPT !.h[k] =
                  IF ~is_admin(sender) THEN FwdDone(h, "ignored")
                  ELSE IF ~redis_up THEN FwdDone(h, "aborted")
                  ELSE IF sender \notin fwd.flags THEN FwdDone(h, "no_flag")
                  ELSE IF uid = NoUser THEN FwdDone(h, "no_id")
                  ELSE [h EXCEPT !.pc = "delete"]]
    /\ UNCHANGED <<store, fwd_rest>>

\* redis.delete of the flag
ForwardDelete(k) ==
    /\ fwd.h[k].pc = "delete"
    /\ fwd' = IF redis_up
              THEN [fwd EXCEPT !.flags = @ \ {fwd.h[k].sender}, !.h[k].pc = "sadd"]
              ELSE [fwd EXCEPT !.h[k] = FwdDone(fwd.h[k], "aborted")]
    /\ UNCHANGED <<store, fwd_rest>>

\* redis.sadd of the forwarded id
ForwardSadd(k) ==
    /\ fwd.h[k].pc = "sadd"
    /\ IF redis_up
       THEN /\ store' = sadd(store, {StrOf(fwd.h[k].uid)})
            /\ fwd' = [fwd EXCEPT !.added = @ \cup {fwd.h[k].uid}, !.h[k].pc = "reply"]
       ELSE /\ fwd' = [fwd EXCEPT !.h[k] = FwdDone(fwd.h[k], "aborted")]
            /\ UNCHANGED store
    /\ UNCHANGED fwd_rest

\* The name keys and message.answer; then _write_backup starts.
ForwardReply(k, tg_ok) ==
    /\ fwd.h[k].pc = "reply"
    /\ fwd' = IF redis_up /\ tg_ok
              THEN [fwd EXCEPT !.h[k].pc = "wb_smembers"]
              ELSE [fwd EXCEPT !.h[k] = FwdDone(fwd.h[k], "aborted")]
    /\ UNCHANGED <<store, fwd_rest>>

\* _write_backup(add_id=uid): SMEMBERS
ForwardWbSmembers(k) ==
    /\ fwd.h[k].pc = "wb_smembers"
    /\ fwd' = IF redis_up
              THEN [fwd EXCEPT !.h[k].pc = "wb_write", !.h[k].ids_redis = Ints(store)]
              ELSE [fwd EXCEPT !.h[k] = FwdDone(fwd.h[k], "write_failed")]
    /\ UNCHANGED <<store, fwd_rest>>

\* _write_backup after SMEMBERS: read the file, merge, write, replace.
ForwardWbWrite(k, file_ok) ==
    /\ fwd.h[k].pc = "wb_write"
    /\ IF file_ok
       THEN /\ backup' = dump_backup(backup_items(load_backup_ids(backup),
                                                  fwd.h[k].ids_redis, fwd.h[k].uid, NoUser))
            /\ fwd' = [fwd EXCEPT !.h[k] = FwdDone(fwd.h[k], "ok")]
       ELSE /\ fwd' = [fwd EXCEPT !.h[k] = FwdDone(fwd.h[k], "write_failed")]
            /\ UNCHANGED backup
    /\ UNCHANGED <<store, redis_up, now, cached_allowed_ids, last_cache_refresh,
                   restore_attempted, refresher_task, pass, cpc, last_call, adm,
                   job_vars, svc_vars, wm, run, bot_timeout, rk, ucrop>>

ForwardReturn(k) ==
    /\ fwd.h[k].pc = "done"
    /\ fwd' = [fwd EXCEPT !.h[k] = IdleFwdHandler]
    /\ UNCHANGED <<store, fwd_rest>>

\* Ids a forwarded message can carry.
ForwardedIds == {NoUser, 2, 3}

InitRouter == GateInit({{"2"}}, {dump_backup({2})}) /\ JobsInit /\ SvcInit /\ DlvInit

\* Every command of every sender, with one forwarded message at a time.
NextRouter ==
    \/ \E sender \in Principals, op \in {"allow", "deny"}, args \in ArgLists,
          val \in Mappings : AdminCommand(sender, op, args, val)
    \/ \E sender \in Principals, args \in ArgLists, val \in Mappings,
          chat \in {NoUser, 3} : AllowUsername(sender, args, val, chat)
    \/ AdminMutate
    \/ \E tg_ok \in BOOLEAN : AdminReply(tg_ok)
    \/ AdminWbSmembers
    \/ \E file_ok \in BOOLEAN : AdminWbWrite(file_ok)
    \/ AdminReturn
    \/ \E sender \in Principals : AllowFromForward(sender)
    \/ \E admin \in Principals : FlagExpire(admin)
    \/ \E sender \in Principals, uid \in ForwardedIds : ForwardGet(1, sender, uid)
    \/ ForwardDelete(1)
    \/ ForwardSadd(1)
    \/ \E tg_ok \in BOOLEAN : ForwardReply(1, tg_ok)
    \/ ForwardWbSmembers(1)
    \/ \E file_ok \in BOOLEAN : ForwardWbWrite(1, file_ok)
    \/ ForwardReturn(1)
    \/ RedisDown
    \/ RedisUp

SpecRouter == InitRouter /\ [][NextRouter]_vars

\* Forwarded messages handled concurrently.
NextForward ==
    \/ \E sender \in Principals : AllowFromForward(sender)
    \/ \E admin \in Principals : FlagExpire(admin)
    \/ \E k \in FwdHandlers, sender \in Principals, uid \in ForwardedIds :
          ForwardGet(k, sender, uid)
    \/ \E k \in FwdHandlers : ForwardDelete(k)
    \/ \E k \in FwdHandlers : ForwardSadd(k)
    \/ \E k \in FwdHandlers, tg_ok \in BOOLEAN : ForwardReply(k, tg_ok)
    \/ \E k \in FwdHandlers : ForwardWbSmembers(k)
    \/ \E k \in FwdHandlers, file_ok \in BOOLEAN : ForwardWbWrite(k, file_ok)
    \/ \E k \in FwdHandlers : ForwardReturn(k)
    \/ RedisDown
    \/ RedisUp

SpecForward == InitRouter /\ [][NextForward]_vars

\* C35: every step of the admin router that changes the whitelist set or the
\* backup file belongs to a handler whose sender is an admin.
C35_OnlyAdminsChange ==
    [][(store' # store \/ backup' # backup)
         => \/ /\ adm.pc \in {"mutate", "wb_write"}
               /\ adm' # adm
               /\ adm.sender \in admin_ids
            \/ \E k \in FwdHandlers :
                  /\ fwd.h[k].pc \in {"sadd", "wb_write"}
                  /\ fwd'.h[k] # fwd.h[k]
                  /\ fwd.h[k].sender \in admin_ids]_vars

\* A user who is no admin has forwarded a message while an admin's flag was
\* pending, and sent a command: both were ignored.
C35_Witness ==
    /\ fwd.flags = {1}
    /\ fwd.h[1].pc = "done" /\ fwd.h[1].result = "ignored"
    /\ adm.pc = "done" /\ adm.result = "ignored" /\ adm.op = "deny"
    /\ store = {"2"}

\* C40: the forward handlers have sent no more ids to SADD than
\* /allow_from_forward commands were accepted.
C40_OneAdditionPerFlag == Cardinality(fwd.added) <= fwd.issued


(***************************************************************************)
(* The access gate over damaged data                                       *)
(***************************************************************************)

\* Backup files with entries that are no integers, and sets with a member
\* that is no number.
InitIntegrity ==
    /\ GateInit({{}, {"3"}, {"x"}, {"3", "x"}},
                {Unreadable} \cup [readable : {TRUE}, entries : SUBSET {"2.5", "3", "x"}])
    /\ JobsInit
    /\ SvcInit
    /\ DlvInit

NextIntegrity ==
    \/ Call
    \/ \E ev \in Events : Dispatch(ev)
    \/ CallReturn
    \/ BgRefresh
    \/ \E p \in PassIds : RestoreSmembers(p)
    \/ \E p \in PassIds : RestoreSadd(p)
    \/ \E p \in PassIds : Pull(p)
    \/ RedisDown
    \/ RedisUp

SpecIntegrity == InitIntegrity /\ [][NextIntegrity]_vars

\* C31: a reconciliation pass removes nothing from the set, and what it adds
\* is an integer entry of the backup file; entries that are no integers add
\* nothing.
C31_BadDataChangesNothing ==
    [][store' # store
         => /\ store \subseteq store'
            /\ (store' \ store) \subseteq {t \in backup.entries : IsIntStr(t)}]_vars

\* C32: the snapshot, empty at the start, changes only in the step that ends
\* the pull of one pass, and that step installs the whole normalized
\* membership the pull has read.
C32_SnapshotReplacedWhole ==
    [][cached_allowed_ids' # cached_allowed_ids
         => /\ \E p \in PassIds : pass[p].pc = "pull" /\ pass'[p].pc = "idle"
            /\ redis_up
            /\ cached_allowed_ids' = Ints(store)]_vars

\* An access check answered from the snapshot while the background pass is
\* between its restore and its pull; the snapshot holds an id the set has
\* lost and misses one the set has gained.
C32_Witness ==
    /\ pass["bg"].pc = "pull"
    /\ cpc = "done"
    /\ last_call.via = "cache"
    /\ cached_allowed_ids = {2}
    /\ store = {"3"}


(***************************************************************************)
(* Denials across reconciliation and process starts                        *)
(***************************************************************************)

\* The process stops while nothing is in flight and starts again: a new
\* WhitelistMiddleware is constructed; the set and the file stay. The record
\* of the admin command that ended last is kept as history.
Restart ==
    /\ restore_attempted
    /\ cpc = "idle"
    /\ \A p \in PassIds : pass[p].pc = "idle"
    /\ adm.pc \in {"idle", "done"}
    /\ cached_allowed_ids' = {}
    /\ last_cache_refresh' = 0
    /\ restore_attempted' = FALSE
    /\ refresher_task' = FALSE
    /\ UNCHANGED <<store, backup, redis_up, now, pass, cpc, last_call, adm,
                   job_vars, svc_vars, dlv_vars>>

InitDurable ==
    /\ GateInit({{"2"}, {"2", "3"}}, {dump_backup({2}), dump_backup({2, 3})})
    /\ JobsInit
    /\ SvcInit
    /\ DlvInit

NextDurable ==
    \/ Next
    \/ Restart

SpecDurable == InitDurable /\ [][NextDurable]_vars

\* The deny command has sent its SREM and is on its way to the backup
\* rewrite, or has ended after the rewrite or its failure.
Removed ==
    /\ adm.op = "deny"
    /\ \/ adm.pc \in {"reply", "wb_smembers", "wb_write"}
       \/ adm.pc = "done" /\ adm.result \in {"ok", "write_failed"}

\* C36: from the SREM of deny on, with no allow in between, the denied id is
\* no member of the set.
C36_DenialDurable == Removed => StrOf(adm.uid) \notin store

\* C37: a pull that ends with the store reachable after deny has completed,
\* the denied id being no member of the set, leaves a snapshot without that
\* id.
C37_DeniedLeavesSnapshot ==
    [][(/\ adm.pc = "done" /\ adm.op = "deny" /\ adm.result = "ok"
        /\ StrOf(adm.uid) \notin store
        /\ redis_up
        /\ \E p \in PassIds : pass[p].pc = "pull" /\ pass'[p].pc = "idle")
         => adm.uid \notin cached_allowed_ids']_vars

====
